---------------------------- MODULE Spec2Model ----------------------------
(***************************************************************************)
(* Model of the Azure DevOps inventory collector                           *)
(* (src/azure/collect-ado-inventory.py).                                   *)
(*                                                                         *)
(* SpecVC    : get_project_version_control_type - the two backend probes,  *)
(*             the primary-backend decision and the lower-priority kinds.  *)
(* SpecStats : get_repo_statistics - the size-estimation cascade for one   *)
(*             Git repository.                                             *)
(*                                                                         *)
(* Conventions.  A Python value that may be None is a sequence of length   *)
(* at most one: None is << >> and a present value v is <<v>>.  A datetime  *)
(* is the integer year*10000 + month*100 + day, so that the ordering of    *)
(* datetimes is the ordering of integers.  A decimal string produced by    *)
(* str(n) is the record [kind |-> "num", n |-> n]; the other strings the    *)
(* code writes into the same fields ("Unknown", "N/A") are records with    *)
(* that kind and n = 0.                                                    *)
(***************************************************************************)
EXTENDS Integers, Sequences, FiniteSets, TLC

(***************************************************************************)
(* Bounds of the model                                                     *)
(***************************************************************************)
\* TFVC items returned by one listing
MaxItems == 3
\* Git repositories returned by the repository listing
MaxRepos == 2
\* blobs of one repository seen by analyze_git_repo_inline
MaxBlobs == 1
\* sizes reported by the API are multiples k * 5120 bytes, k in 0..MaxSizeK
MaxSizeK == 1
\* files of a repository listing that carry a per-item size
MaxSized == 2
\* files of a repository listing that carry no per-item size (besides the
\* two listings at the probing cap, ProbeFileCap and ProbeFileCap + 1)
MaxUnsized == 2
\* projects the project listing of one organization returns
MaxProjects == 2
\* tokens in GH_SOURCE_PAT
MaxPats == 2
\* the clock runs from 1 to MaxClock
MaxClock == 3
\* GET /rate_limit requests one caller of wait_for_rate_limit may send
MaxQuotaRequests == 4

(***************************************************************************)
(* Optional values and small helpers                                       *)
(***************************************************************************)
None == << >>

Some(v) == <<v>>

Val(o) == o[1]

Opt(S) == {None} \cup {Some(v) : v \in S}

Min(a, b) == IF a < b THEN a ELSE b

Max(a, b) == IF a > b THEN a ELSE b

RECURSIVE SumSeq(_)
SumSeq(s) == IF s = << >> THEN 0 ELSE Head(s) + SumSeq(Tail(s))

RECURSIVE MaxSeq(_)
MaxSeq(s) == IF s = << >> THEN 0 ELSE Max(Head(s), MaxSeq(Tail(s)))

\* all sequences over S of length 0..n
SeqUpTo(S, n) == UNION {[1..k -> S] : k \in 0..n}

(***************************************************************************)
(* datetime                                                                *)
(***************************************************************************)
MkDate(y, m, d) == y * 10000 + m * 100 + d

YearOf(dt) == dt \div 10000

MonthOf(dt) == (dt \div 100) % 100

DayOf(dt) == dt % 100

IsLeap(y) == (y % 4 = 0 /\ y % 100 # 0) \/ y % 400 = 0

DaysInMonth(y, m) ==
    IF m = 2 THEN (IF IsLeap(y) THEN 29 ELSE 28)
    ELSE IF m \in {4, 6, 9, 11} THEN 30 ELSE 31

ValidDate(y, m, d) == m \in 1..12 /\ d >= 1 /\ d <= DaysInMonth(y, m)

\* datetime.replace(year=y): the same month and day in year y; None stands
\* for the ValueError raised when that day does not exist in year y.
ReplaceYear(dt, y) ==
    IF ValidDate(y, MonthOf(dt), DayOf(dt))
    THEN Some(MkDate(y, MonthOf(dt), DayOf(dt)))
    ELSE None

\* datetime.fromisoformat(s.replace('Z', '+00:00')) inside try/except: a
\* date string is [ok, date]; an unparsable string leaves the field None.
FromIsoFormat(s) == IF s.ok THEN Some(s.date) ELSE None

\* values of datetime.now(timezone.utc) the model draws from
NowDates == {MkDate(2027, 6, 15), MkDate(2028, 2, 28), MkDate(2028, 2, 29), MkDate(2028, 3, 1)}

\* commit / changeset dates the remote side reports
ActivityDates == {MkDate(2025, 1, 1), MkDate(2026, 3, 1), MkDate(2027, 6, 1)}

DateStrings == [ok : {TRUE}, date : ActivityDates] \cup [ok : {FALSE}, date : {MkDate(2025, 1, 1)}]

(***************************************************************************)
(* Sizes                                                                   *)
(***************************************************************************)
ApiSizes == {k * 5120 : k \in 0..MaxSizeK}

(***************************************************************************)
(* State                                                                   *)
(***************************************************************************)
VARIABLES
    vcPc,              \* position inside get_project_version_control_type
    tfvc_info,         \* result of check_tfvc_system_inline
    git_info,          \* result of check_git_system_inline
    git_todo,          \* repositories of git_repos[:3] not yet analysed
    git_acc,           \* loop locals of check_git_system_inline
    now,               \* datetime.now(timezone.utc) once it has been read
    project_type,      \* value returned by get_project_version_control_type
    decided_by,        \* the rule that produced project_type
    determine_called,  \* determine_primary_version_control_inline was invoked
    other_resp,        \* what the feeds and wikis endpoints answer for the project
    probe_status,      \* how the requests of the two probe functions themselves ended
    stPc,              \* position inside get_repo_statistics
    repo_api_size,     \* 'size' of the repository resource, None when not reported
    file_count,        \* number of blobs of the item listing
    calculated_total_size,
    largest_size,
    sizes_from_metadata,
    successful_measurements,
    files_left,        \* files the Content-Length loop has still to visit
    probe_requests,    \* HEAD and GET requests sent by the Content-Length loop
    stats,             \* the dictionary get_repo_statistics returns
    pjPc,              \* position inside process_project
    pj_type,           \* project_type as process_project received it
    pj_repos,          \* names of the repositories get_repos_within_project listed
    pj_seen,           \* per visited repository: the size and the metadata sum the API gave
    project_data,      \* the rows process_project has appended so far
    foPc,              \* position of the main thread of the inventory script
    max_org_workers,   \* --max-org-workers
    max_project_workers, \* --max-project-workers
    org_pc,            \* per organization: state of its future and position of its worker
    proj_pc,           \* per project of an organization: state of its future
    proj_rows,         \* per project: number of rows its process_project returns, if it returns
    org_data,          \* per organization: the local list of process_organization
    csv_data,          \* the list main merges the organizations into
    csv_file,          \* the rows written to the CSV file, None while not written
    ghPc,              \* position of the main thread of the GitHub inventory script
    repo_pc,           \* per repository of the page: position of its process_repo call
    repo_data_lock,    \* holder of repo_data_lock, None when it is free
    repo_data,         \* the global list store_repo_data appends to
    output_file,       \* the rows written to the output file, None while not written
    pat_index,         \* get_pat.index, None while the attribute does not exist
    pats,              \* get_pat.pats
    call_pc,           \* per thread: position inside get_pat
    call_index,        \* per thread: the value of get_pat.index it has read
    pat_returns,       \* the tokens get_pat returned, in the order of the returns
    pat_overlap,       \* some call began while another call was in progress
    enterprise,        \* api_url ends with '/api/v3' (--server was given)
    clock,             \* datetime.now() of the machine the script runs on
    rate_limit_lock,   \* holder of rate_limit_lock, None when it is free
    rl_pc,             \* per caller: position inside wait_for_rate_limit
    rl_remaining,      \* per caller: the remaining count its last quota check gave
    rl_reset,          \* per caller: the reset time its last pass through the loop obtained
    rl_wake,           \* per caller: the time at which its time.sleep ends
    rl_cred,           \* per caller: the tokens the two quota checks of its last pass used
    rl_requests,       \* per caller: GET /rate_limit requests it has sent
    rl_requests_at_sleep, \* per caller: rl_requests when its last time.sleep began
    suPc,              \* position of main before its pools are created
    orgs_file,         \* what open() finds at the path given as orgs_file
    ADO_PAT,           \* os.getenv('ADO_PAT'), None when the variable is not set
    token,             \* the token main holds, None before get_ado_token returned
    exit_status,       \* the status sys.exit was called with, None while the run has not exited
    printed            \* the messages thread_safe_print has written, in order

stVars == <<stPc, repo_api_size, file_count, calculated_total_size, largest_size, sizes_from_metadata,
            successful_measurements, files_left, probe_requests, stats>>

vcVars == <<vcPc, tfvc_info, git_info, git_todo, git_acc, now, project_type, decided_by, determine_called, other_resp, probe_status>>

pjVars == <<pjPc, pj_type, pj_repos, pj_seen, project_data>>

\* the variables of everything but the classifier and the size cascade
foVars == <<foPc, max_org_workers, max_project_workers, org_pc, proj_pc, proj_rows, org_data, csv_data, csv_file>>

ghVars == <<ghPc, repo_pc, repo_data_lock, repo_data, output_file>>

patVars == <<pat_index, pats, call_pc, call_index, pat_returns, pat_overlap>>

rlVars == <<enterprise, clock, rate_limit_lock, rl_pc, rl_remaining, rl_reset, rl_wake, rl_cred,
            rl_requests, rl_requests_at_sleep>>

suVars == <<suPc, orgs_file, ADO_PAT, token, exit_status, printed>>

restVars == <<pjVars, foVars, ghVars, patVars, rlVars, suVars>>

\* the variables process_project does not touch
pjRest == <<rlVars, vcVars, stVars, foVars, ghVars, patVars, suVars>>

\* the variables the fan-out of main and process_organization does not touch
foRest == <<rlVars, vcVars, stVars, pjVars, ghVars, patVars, suVars>>

\* the variables the repository pool of the GitHub script does not touch
ghRest == <<rlVars, vcVars, stVars, pjVars, foVars, patVars, suVars>>

\* the variables get_pat does not touch
patRest == <<vcVars, stVars, pjVars, foVars, ghVars, rlVars, suVars>>

\* the variables wait_for_rate_limit and the get_pat calls it makes do not touch
rlRest == <<vcVars, stVars, pjVars, foVars, ghVars, suVars, pats, call_pc, call_index, pat_overlap>>

vars == <<vcVars, stVars, restVars>>

(***************************************************************************)
(* Remote side: what the Azure DevOps REST API may answer                  *)
(***************************************************************************)
\* an entry of the TFVC item listing
TfvcItems == [isFolder : {FALSE}, size : ApiSizes] \cup [isFolder : {TRUE}, size : {0}]

\* GET _apis/tfvc/items: a transport error, a non-200 status, or a listing
TfvcItemsResponses ==
    {[status |-> "error", items |-> << >>], [status |-> "non200", items |-> << >>]}
    \cup {[status |-> "ok", items |-> s] : s \in SeqUpTo(TfvcItems, MaxItems)}

\* GET _apis/tfvc/changesets?$top=1: at most one changeset, whose createdDate
\* may be missing (None) or unparsable
ChangesetsResponses ==
    {[status |-> "error", changesets |-> << >>], [status |-> "non200", changesets |-> << >>]}
    \cup {[status |-> "ok", changesets |-> s] : s \in SeqUpTo([createdDate : Opt(DateStrings)], 1)}

\* GET _apis/git/repositories: the number of repositories listed
GitListResponses ==
    {[status |-> "error", repos |-> 0], [status |-> "non200", repos |-> 0]}
    \cup {[status |-> "ok", repos |-> n] : n \in 0..MaxRepos}

\* the three requests analyze_git_repo_inline sends for one repository
RepoResponses ==
    {[status |-> "error", size |-> None], [status |-> "non200", size |-> None]}
    \cup {[status |-> "ok", size |-> o] : o \in Opt(ApiSizes)}

RepoItemsResponses ==
    {[status |-> "error", blobs |-> 0, others |-> 0], [status |-> "non200", blobs |-> 0, others |-> 0]}
    \cup [status : {"ok"}, blobs : 0..MaxBlobs, others : 0..2]

CommitsResponses ==
    {[status |-> "error", commits |-> << >>], [status |-> "non200", commits |-> << >>]}
    \cup {[status |-> "ok", commits |-> s] : s \in SeqUpTo([date : Opt(DateStrings)], 1)}

RemoteRepos == [repo : RepoResponses, items : RepoItemsResponses, commits : CommitsResponses]

\* GET feeds / GET wikis: number of entries of 'value'
ListResponses ==
    {[status |-> "error", count |-> 0], [status |-> "non200", count |-> 0]}
    \cup [status : {"ok"}, count : 0..1]

(***************************************************************************)
(* check_tfvc_system_inline                                                *)
(***************************************************************************)
TfvcInfoInit ==
    [has_content |-> FALSE, item_count |-> 0, total_size |-> 0, changesets |-> 0,
     last_activity |-> None, error |-> None]

RECURSIVE TfvcFileCount(_)
TfvcFileCount(items) ==
    IF items = << >> THEN 0
    ELSE (IF Head(items).isFolder THEN 0 ELSE 1) + TfvcFileCount(Tail(items))

RECURSIVE TfvcTotalSize(_)
TfvcTotalSize(items) ==
    IF items = << >> THEN 0
    ELSE (IF Head(items).isFolder THEN 0 ELSE Head(items).size) + TfvcTotalSize(Tail(items))

\* TfvcAfterItems without the assignment of line 173: the counts are stored,
\* has_content stays False and the changeset fallback runs
TfvcAfterItems_NoContentFlag(info, resp) ==
    IF resp.status = "error" THEN [info EXCEPT !.error = Some("RequestException")]
    ELSE IF resp.status = "ok" /\ resp.items # << >>
    THEN [info EXCEPT !.item_count = TfvcFileCount(resp.items),
                      !.total_size = TfvcTotalSize(resp.items)]
    ELSE info

\* lines 168-185: the item listing
TfvcAfterItems(info, resp) ==
    IF resp.status = "error" THEN [info EXCEPT !.error = Some("RequestException")]
    ELSE IF resp.status = "ok" /\ resp.items # << >>
    THEN [info EXCEPT !.has_content = TRUE,
                      !.item_count = TfvcFileCount(resp.items),
                      !.total_size = TfvcTotalSize(resp.items)]
    ELSE info

\* lines 188-206: the changeset fallback
TfvcAfterChangesets(info, resp) ==
    IF resp.status = "error" THEN [info EXCEPT !.error = Some("RequestException")]
    ELSE IF resp.status = "ok" /\ resp.changesets # << >>
    THEN [info EXCEPT !.has_content = TRUE,
                      !.changesets = Len(resp.changesets),
                      !.last_activity =
                          IF resp.changesets[1].createdDate # None
                          THEN FromIsoFormat(Val(resp.changesets[1].createdDate))
                          ELSE None]
    ELSE info

(***************************************************************************)
(* check_git_system_inline / analyze_git_repo_inline                       *)
(***************************************************************************)
GitInfoInit ==
    [has_content |-> FALSE, repo_count |-> 0, total_files |-> 0, total_size |-> 0,
     last_activity |-> None, repos |-> << >>, error |-> None]

GitAccInit == [repos_with_content |-> << >>, total_files |-> 0, total_size |-> 0, latest_activity |-> None]

\* git_repos[:3]
GitProbeCap == 3

\* A RequestException ends the function at the request that raised it; what
\* was stored before it is kept.
analyze_git_repo_inline(r) ==
    LET sawItems == r.repo.status # "error" /\ r.items.status = "ok"
        sawCommits == r.repo.status # "error" /\ r.items.status # "error" /\ r.commits.status = "ok"
        nItems == r.items.blobs + r.items.others
    IN  [has_content |-> sawItems /\ (r.items.blobs > 0 \/ nItems > 1),
         file_count |-> IF ~sawItems THEN 0
                        ELSE IF r.items.blobs > 0 THEN r.items.blobs
                        ELSE IF nItems > 1 THEN nItems ELSE 0,
         size_bytes |-> IF r.repo.status = "ok" /\ r.repo.size # None THEN Val(r.repo.size) ELSE 0,
         last_commit |-> IF sawCommits /\ r.commits.commits # << >>
                            /\ r.commits.commits[1].date # None
                         THEN FromIsoFormat(Val(r.commits.commits[1].date))
                         ELSE None]

\* lines 239-247: one iteration of the loop over git_repos[:3].  Of repo_info
\* only file_count and size_bytes are read again (get_system_size_estimate),
\* so the stored entry keeps these two.
GitAccumulate(acc, info) ==
    IF info.has_content
    THEN [repos_with_content |-> Append(acc.repos_with_content,
                                        [file_count |-> info.file_count, size_bytes |-> info.size_bytes]),
          total_files |-> acc.total_files + info.file_count,
          total_size |-> acc.total_size + info.size_bytes,
          latest_activity |->
              IF info.last_commit # None
                 /\ (acc.latest_activity = None \/ Val(info.last_commit) > Val(acc.latest_activity))
              THEN info.last_commit ELSE acc.latest_activity]
    ELSE acc

\* lines 249-255
GitInfoFrom(info, acc) ==
    IF acc.repos_with_content # << >>
    THEN [info EXCEPT !.has_content = TRUE,
                      !.repo_count = Len(acc.repos_with_content),
                      !.total_files = acc.total_files,
                      !.total_size = acc.total_size,
                      !.last_activity = acc.latest_activity,
                      !.repos = acc.repos_with_content]
    ELSE info

(***************************************************************************)
(* get_system_size_estimate                                                *)
(***************************************************************************)
\* lines 395-404: per-repository sizes, 5KB per file where a size is missing
RECURSIVE RepoSizesEstimate(_)
RepoSizesEstimate(repos) ==
    IF repos = << >> THEN 0
    ELSE (IF Head(repos).size_bytes > 0 THEN Head(repos).size_bytes
          ELSE Head(repos).file_count * 5 * 1024)
         + RepoSizesEstimate(Tail(repos))

\* get_system_size_estimate without the per-file fallbacks
get_system_size_estimate_NoFallback(system_info, system_type) == system_info.total_size

\* lines 384-416
get_system_size_estimate(system_info, system_type) ==
    IF system_type = "git"
    THEN IF system_info.total_size > 0 THEN system_info.total_size
         ELSE IF system_info.repos # << >> THEN RepoSizesEstimate(system_info.repos)
         ELSE IF system_info.total_files > 0 THEN system_info.total_files * 5 * 1024
         ELSE 0
    ELSE IF system_type = "tfvc"
    THEN IF system_info.total_size > 0 THEN system_info.total_size
         ELSE IF system_info.item_count > 0 THEN system_info.item_count * 10 * 1024
         ELSE 0
    ELSE 0

(***************************************************************************)
(* determine_primary_version_control_inline                                *)
(***************************************************************************)
\* SizeStage with the comparison turned round: the smaller system wins
SizeStage_SmallerWins(tfvc_size, git_size) ==
    IF tfvc_size > 0 /\ git_size > 0
    THEN IF git_size < tfvc_size THEN "GIT"
         ELSE IF tfvc_size < git_size THEN "TFVC"
         ELSE "CONTINUE"
    ELSE IF git_size > 0 THEN "GIT"
    ELSE IF tfvc_size > 0 THEN "TFVC"
    ELSE "CONTINUE"

\* SizeStage with >= for >: equal sizes are decided for Git at the size stage
SizeStage_TieToGit(tfvc_size, git_size) ==
    IF tfvc_size > 0 /\ git_size > 0
    THEN IF git_size >= tfvc_size THEN "GIT" ELSE "TFVC"
    ELSE IF git_size > 0 THEN "GIT"
    ELSE IF tfvc_size > 0 THEN "TFVC"
    ELSE "CONTINUE"

\* lines 332-348: the branch of the size comparison that is taken
SizeBranch(tfvc_size, git_size) ==
    IF tfvc_size > 0 /\ git_size > 0 THEN "both have size data"
    ELSE IF git_size > 0 THEN "only Git has size data"
    ELSE IF tfvc_size > 0 THEN "only TFVC has size data"
    ELSE "no size data for either system"

\* lines 332-348: "CONTINUE" when the sizes decide nothing
SizeStage(tfvc_size, git_size) ==
    IF tfvc_size > 0 /\ git_size > 0
    THEN IF git_size > tfvc_size THEN "GIT"
         ELSE IF tfvc_size > git_size THEN "TFVC"
         ELSE "CONTINUE"
    ELSE IF git_size > 0 THEN "GIT"
    ELSE IF tfvc_size > 0 THEN "TFVC"
    ELSE "CONTINUE"

\* line 355 / 356: info.get('last_activity') and info['last_activity'] > two_years_ago
IsRecent(info, two_years_ago) ==
    info.last_activity # None /\ Val(info.last_activity) > two_years_ago

\* lines 351-371: "ValueError" when now.replace(year=now.year - 2) raises,
\* "CONTINUE" when neither system is recent
RecencyStage(tfvc, git, nowv) ==
    LET two_years_ago == ReplaceYear(nowv, YearOf(nowv) - 2)
    IN  IF two_years_ago = None THEN "ValueError"
        ELSE LET tfvc_recent == IsRecent(tfvc, Val(two_years_ago))
                 git_recent == IsRecent(git, Val(two_years_ago))
             IN  IF git_recent /\ ~tfvc_recent THEN "GIT"
                 ELSE IF tfvc_recent /\ ~git_recent THEN "TFVC"
                 ELSE IF git_recent /\ tfvc_recent
                 THEN (IF Val(git.last_activity) > Val(tfvc.last_activity) THEN "GIT" ELSE "TFVC")
                 ELSE "CONTINUE"

\* VolumeStage without the factor 2: TFVC wins as soon as it has more items
VolumeStage_NoFactor(tfvc, git) ==
    IF git.total_files > tfvc.item_count THEN "GIT"
    ELSE IF tfvc.item_count > git.total_files THEN "TFVC"
    ELSE "GIT"

\* lines 373-382
VolumeStage(tfvc, git) ==
    IF git.total_files > tfvc.item_count THEN "GIT"
    ELSE IF tfvc.item_count > git.total_files * 2 THEN "TFVC"
    ELSE "GIT"

\* The whole function: the value returned (or the exception raised) and the
\* stage that produced it.
determine_primary_version_control_inline(tfvc, git, nowv) ==
    LET bySize == SizeStage(get_system_size_estimate(tfvc, "tfvc"), get_system_size_estimate(git, "git"))
        byRecency == RecencyStage(tfvc, git, nowv)
    IN  IF bySize # "CONTINUE" THEN [result |-> bySize, stage |-> "size"]
        ELSE IF byRecency # "CONTINUE" THEN [result |-> byRecency, stage |-> "recency"]
        ELSE [result |-> VolumeStage(tfvc, git), stage |-> "volume"]

(***************************************************************************)
(* check_other_storage_types_inline                                        *)
(***************************************************************************)
\* check_other_storage_types_inline asking for wikis before feeds
check_other_storage_types_WikiFirst(feeds, wikis) ==
    IF wikis.status = "ok" /\ wikis.count > 0 THEN "WIKI"
    ELSE IF feeds.status = "ok" /\ feeds.count > 0 THEN "ARTIFACTS"
    ELSE "FILE_STORAGE"

check_other_storage_types_inline(feeds, wikis) ==
    IF feeds.status = "ok" /\ feeds.count > 0 THEN "ARTIFACTS"
    ELSE IF wikis.status = "ok" /\ wikis.count > 0 THEN "WIKI"
    ELSE "FILE_STORAGE"

(***************************************************************************)
(* get_project_version_control_type: the decision of lines 141-153         *)
(***************************************************************************)
\* DecisionBranch with 'or' for 'and' in its first test
DecisionBranch_AnyContent(tfvc, git) ==
    IF tfvc.has_content \/ git.has_content THEN "DETERMINE"
    ELSE "OTHER"

\* "DETERMINE": determine_primary_version_control_inline is called;
\* "OTHER": check_other_storage_types_inline is called
DecisionBranch(tfvc, git) ==
    IF tfvc.has_content /\ git.has_content THEN "DETERMINE"
    ELSE IF git.has_content THEN "GIT"
    ELSE IF tfvc.has_content THEN "TFVC"
    ELSE "OTHER"

(***************************************************************************)
(* Actions of get_project_version_control_type                             *)
(***************************************************************************)
\* no request of check_tfvc_system_inline or check_git_system_inline was sent.
\* The status "non200" stands for every status code but 200, 401 and 403
\* among them: the probes test status_code == 200 and nothing else.
NoRequests == [tfvc_items |-> "none", tfvc_changesets |-> "none", git_list |-> "none"]

VCInit ==
    /\ vcPc = "tfvc_items"
    /\ tfvc_info = TfvcInfoInit
    /\ git_info = GitInfoInit
    /\ git_todo = 0
    /\ git_acc = GitAccInit
    /\ now = None
    /\ project_type = "NONE"
    /\ decided_by = "none"
    /\ determine_called = FALSE
    /\ other_resp = None
    /\ probe_status = NoRequests

\* check_tfvc_system_inline, first request
CheckTfvcItems ==
    /\ vcPc = "tfvc_items"
    /\ \E resp \in TfvcItemsResponses :
          /\ tfvc_info' = TfvcAfterItems(tfvc_info, resp)
          /\ probe_status' = [probe_status EXCEPT !.tfvc_items = resp.status]
          /\ vcPc' = IF resp.status = "error" \/ tfvc_info'.has_content
                     THEN "git_list" ELSE "tfvc_changesets"
    /\ UNCHANGED <<stVars, restVars, git_info, git_todo, git_acc, now, project_type, decided_by, determine_called, other_resp>>

\* check_tfvc_system_inline, changeset fallback (only without content)
CheckTfvcChangesets ==
    /\ vcPc = "tfvc_changesets"
    /\ \E resp \in ChangesetsResponses :
          /\ tfvc_info' = TfvcAfterChangesets(tfvc_info, resp)
          /\ probe_status' = [probe_status EXCEPT !.tfvc_changesets = resp.status]
    /\ vcPc' = "git_list"
    /\ UNCHANGED <<stVars, restVars, git_info, git_todo, git_acc, now, project_type, decided_by, determine_called, other_resp>>

\* check_git_system_inline, the repository listing
CheckGitList ==
    /\ vcPc = "git_list"
    /\ \E resp \in GitListResponses :
          /\ git_info' = IF resp.status = "error"
                         THEN [git_info EXCEPT !.error = Some("RequestException")]
                         ELSE git_info
          /\ git_todo' = IF resp.status = "ok" THEN Min(resp.repos, GitProbeCap) ELSE 0
          /\ probe_status' = [probe_status EXCEPT !.git_list = resp.status]
          /\ vcPc' = IF git_todo' > 0 THEN "git_repo" ELSE "decide"
    /\ UNCHANGED <<stVars, restVars, tfvc_info, git_acc, now, project_type, decided_by, determine_called, other_resp>>

\* check_git_system_inline, one repository of the loop; after the last one
\* the loop locals are stored into git_info
AnalyzeGitRepo ==
    /\ vcPc = "git_repo"
    /\ git_todo > 0
    /\ \E r \in RemoteRepos :
          git_acc' = GitAccumulate(git_acc, analyze_git_repo_inline(r))
    /\ git_todo' = git_todo - 1
    /\ IF git_todo' = 0
       THEN /\ git_info' = GitInfoFrom(git_info, git_acc')
            /\ vcPc' = "decide"
       ELSE /\ git_info' = git_info
            /\ vcPc' = "git_repo"
    /\ UNCHANGED <<stVars, restVars, tfvc_info, now, project_type, decided_by, determine_called, other_resp, probe_status>>

\* lines 141-153
DecideType ==
    /\ vcPc = "decide"
    /\ LET branch == DecisionBranch(tfvc_info, git_info)
       IN  /\ determine_called' = (branch = "DETERMINE")
           /\ vcPc' = IF branch = "DETERMINE" THEN "determine"
                      ELSE IF branch = "OTHER" THEN "other" ELSE "done"
           /\ project_type' = IF branch \in {"GIT", "TFVC"} THEN branch ELSE project_type
           /\ decided_by' = IF branch \in {"GIT", "TFVC"} THEN "single" ELSE decided_by
    /\ UNCHANGED <<stVars, restVars, tfvc_info, git_info, git_todo, git_acc, now, other_resp, probe_status>>

\* determine_primary_version_control_inline; the clock is read only when the
\* size stage decides nothing
DeterminePrimary ==
    /\ vcPc = "determine"
    /\ \E nowv \in NowDates :
          LET r == determine_primary_version_control_inline(tfvc_info, git_info, nowv)
          IN  /\ now' = IF r.stage = "size" THEN None ELSE Some(nowv)
              /\ decided_by' = r.stage
              /\ IF r.result = "ValueError"
                 THEN /\ vcPc' = "raised"
                      /\ project_type' = project_type
                 ELSE /\ vcPc' = "done"
                      /\ project_type' = r.result
    /\ UNCHANGED <<stVars, restVars, tfvc_info, git_info, git_todo, git_acc, determine_called, other_resp, probe_status>>

\* check_other_storage_types_inline
CheckOtherStorage ==
    /\ vcPc = "other"
    /\ \E feeds \in ListResponses, wikis \in ListResponses :
          /\ other_resp' = Some([feeds |-> feeds, wikis |-> wikis])
          /\ project_type' = check_other_storage_types_inline(feeds, wikis)
    /\ decided_by' = "other"
    /\ vcPc' = "done"
    /\ UNCHANGED <<stVars, restVars, tfvc_info, git_info, git_todo, git_acc, now, determine_called, probe_status>>

VCNext ==
    \/ CheckTfvcItems
    \/ CheckTfvcChangesets
    \/ CheckGitList
    \/ AnalyzeGitRepo
    \/ DecideType
    \/ DeterminePrimary
    \/ CheckOtherStorage

(***************************************************************************)
(* get_repo_statistics                                                     *)
(***************************************************************************)
\* str(n)
Str(n) == [kind |-> "num", n |-> n]

\* a string literal that is no number
Text(t) == [kind |-> t, n |-> 0]

\* math.ceil(a / b) for non-negative integers
CeilDiv(a, b) == (a + b - 1) \div b

format_size_in_kb(size_bytes) ==
    IF size_bytes > 0 THEN Str(CeilDiv(size_bytes, 1024))
    ELSE IF size_bytes = 0 THEN Str(0)
    ELSE Text("Unknown")

\* line 633: file_count <= 50
ProbeFileCap == 50

\* line 652: successful_measurements < 5
GetRetryCap == 5

\* repository sizes, per-item metadata sizes and Content-Length values the
\* remote side reports
StatRepoSizes == {0, 1000, 1048576}

MetaSizes == {10, 9990}

ContentLengths == {700}

\* GET _apis/git/repositories/{id}
StatRepoResponses ==
    {[status |-> "error", size |-> None], [status |-> "non200", size |-> None]}
    \cup {[status |-> "ok", size |-> o] : o \in Opt(StatRepoSizes)}

\* GET .../items?recursionLevel=Full&includeContentMetadata=true.  A listing
\* is given by the sizes of the blobs that carry a positive 'size', the
\* number of blobs that carry none (absent, None or 0) and the number of
\* entries that are no blob; the order of the entries decides nothing.
ItemListings ==
    [sized : SeqUpTo(MetaSizes, MaxSized),
     unsized : (0..MaxUnsized) \cup {ProbeFileCap, ProbeFileCap + 1},
     others : 0..1]

StatItemsResponses ==
    {[status |-> "error", listing |-> [sized |-> << >>, unsized |-> 0, others |-> 0]],
     [status |-> "non200", listing |-> [sized |-> << >>, unsized |-> 0, others |-> 0]]}
    \cup {[status |-> "ok", listing |-> l] : l \in ItemListings}

\* what happens to one file of the Content-Length loop (lines 638-665)
ProbeOutcomes ==
    {[path |-> FALSE, head |-> "none", get |-> "none", length |-> 0]}
    \cup {[path |-> TRUE, head |-> "error", get |-> "none", length |-> 0]}
    \cup {[path |-> TRUE, head |-> "length", get |-> "none", length |-> l] : l \in ContentLengths}
    \cup {[path |-> TRUE, head |-> "nolength", get |-> g, length |-> 0] : g \in {"error", "non200", "nolength"}}
    \cup {[path |-> TRUE, head |-> "nolength", get |-> "length", length |-> l] : l \in ContentLengths}

StatsInitial == [total_size |-> Text("Unknown"), file_count |-> Text("Unknown"), largest_file_size |-> Text("Unknown")]

\* lines 735-739: the handler of requests.exceptions.RequestException
StatsAllZero == [total_size |-> Str(0), file_count |-> Str(0), largest_file_size |-> Str(0)]

\* ShouldProbe without the cap on the number of files
ShouldProbe_NoCap(from_metadata, files) == from_metadata = 0

\* line 633
ShouldProbe(from_metadata, files) == from_metadata = 0 /\ files <= ProbeFileCap

\* OverheadEstimate without the minimum footprint of a Git repository
OverheadEstimate_NoMinimum(content_size) ==
    IF content_size < 10000 THEN content_size * 50 ELSE content_size * 8

\* OverheadEstimate with a large-content branch that falls as the content grows
OverheadEstimate_Falling(content_size) ==
    IF content_size < 10000 THEN Max(content_size * 50, 40 * 1024) ELSE 160000 - content_size * 8

\* lines 697-703
OverheadEstimate(content_size) ==
    IF content_size < 10000
    THEN Max(content_size * 50, 40 * 1024)
    ELSE content_size * 8

\* Method3 without the else branch of lines 676-681: no estimate from the
\* file count
Method3_ApiOnly(files, calculated, largest, api_size) ==
    IF files > 0 /\ calculated = 0 /\ api_size # None /\ Val(api_size) > 0
    THEN [calculated |-> Val(api_size), largest |-> Max(1024, Val(api_size) \div files)]
    ELSE [calculated |-> calculated, largest |-> largest]

\* lines 670-681: [calculated_total_size, largest_size] after "Method 3"
Method3(files, calculated, largest, api_size) ==
    IF files > 0 /\ calculated = 0
    THEN IF api_size # None /\ Val(api_size) > 0
         THEN [calculated |-> Val(api_size), largest |-> Max(1024, Val(api_size) \div files)]
         ELSE [calculated |-> files * 1024, largest |-> 1024 * 2]
    ELSE [calculated |-> calculated, largest |-> largest]

\* lines 688-715: the branch that produces stats['total_size']
TotalSizeBranch(files, calculated, api_size) ==
    IF api_size # None /\ Val(api_size) > 0 THEN "repository API size"
    ELSE IF calculated > 0 THEN "overhead estimate"
    ELSE IF files > 0 THEN "3072 per file"
    ELSE "zero"

\* lines 688-715
TotalSizeField(files, calculated, api_size) ==
    IF api_size # None /\ Val(api_size) > 0 THEN format_size_in_kb(Val(api_size))
    ELSE IF calculated > 0 THEN format_size_in_kb(OverheadEstimate(calculated))
    ELSE IF files > 0 THEN format_size_in_kb(files * 3072)
    ELSE Str(0)

\* lines 719-729: the item listing answered with a status other than 200
StatsItemsFailed(api_size) ==
    [total_size |-> IF api_size # None /\ Val(api_size) > 0
                    THEN format_size_in_kb(Val(api_size)) ELSE Str(0),
     file_count |-> Str(0),
     largest_file_size |-> Str(0)]

StInit ==
    /\ stPc = "repo_request"
    /\ repo_api_size = None
    /\ file_count = 0
    /\ calculated_total_size = 0
    /\ largest_size = 0
    /\ sizes_from_metadata = 0
    /\ successful_measurements = 0
    /\ files_left = 0
    /\ probe_requests = 0
    /\ stats = StatsInitial

\* lines 599-605
StatsRepoRequest ==
    /\ stPc = "repo_request"
    /\ \E resp \in StatRepoResponses :
          IF resp.status = "error"
          THEN /\ stats' = StatsAllZero
               /\ stPc' = "done"
               /\ repo_api_size' = repo_api_size
          ELSE /\ repo_api_size' = IF resp.status = "ok" THEN resp.size ELSE None
               /\ stPc' = "items_request"
               /\ stats' = stats
    /\ UNCHANGED <<vcVars, restVars, file_count, calculated_total_size, largest_size, sizes_from_metadata,
                   successful_measurements, files_left, probe_requests>>

\* lines 608-633 and 717-730: the item listing and the metadata sizes
StatsItemsRequest ==
    /\ stPc = "items_request"
    /\ \E resp \in StatItemsResponses :
          IF resp.status = "error"
          THEN /\ stats' = StatsAllZero
               /\ stPc' = "done"
               /\ UNCHANGED <<file_count, calculated_total_size, largest_size, sizes_from_metadata, files_left>>
          ELSE IF resp.status = "non200"
          THEN /\ stats' = StatsItemsFailed(repo_api_size)
               /\ stPc' = "done"
               /\ UNCHANGED <<file_count, calculated_total_size, largest_size, sizes_from_metadata, files_left>>
          ELSE /\ file_count' = Len(resp.listing.sized) + resp.listing.unsized
               /\ calculated_total_size' = SumSeq(resp.listing.sized)
               /\ largest_size' = MaxSeq(resp.listing.sized)
               /\ sizes_from_metadata' = Len(resp.listing.sized)
               /\ IF file_count' > 0 /\ ShouldProbe(sizes_from_metadata', file_count')
                  THEN /\ stPc' = "probing"
                       /\ files_left' = file_count'
                  ELSE /\ stPc' = "finalize"
                       /\ files_left' = 0
               /\ stats' = stats
    /\ UNCHANGED <<vcVars, restVars, repo_api_size, successful_measurements, probe_requests>>

\* lines 637-665: one file of the Content-Length loop
ProbeFile ==
    /\ stPc = "probing"
    /\ files_left > 0
    /\ \E o \in ProbeOutcomes :
          LET tryGet == o.path /\ o.head = "nolength" /\ successful_measurements < GetRetryCap
              measured == o.path /\ (o.head = "length" \/ (tryGet /\ o.get = "length"))
          IN  /\ probe_requests' = probe_requests + (IF o.path THEN 1 ELSE 0) + (IF tryGet THEN 1 ELSE 0)
              /\ calculated_total_size' = IF measured THEN calculated_total_size + o.length
                                          ELSE calculated_total_size
              /\ largest_size' = IF measured /\ o.length > largest_size THEN o.length ELSE largest_size
              /\ successful_measurements' = IF measured THEN successful_measurements + 1
                                            ELSE successful_measurements
    /\ files_left' = files_left - 1
    /\ stPc' = IF files_left' = 0 THEN "finalize" ELSE "probing"
    /\ UNCHANGED <<vcVars, restVars, repo_api_size, file_count, sizes_from_metadata, stats>>

\* lines 669-715: "Method 3" and the final statistics
FinalizeStats ==
    /\ stPc = "finalize"
    /\ LET m == Method3(file_count, calculated_total_size, largest_size, repo_api_size)
       IN  /\ calculated_total_size' = m.calculated
           /\ largest_size' = m.largest
           /\ stats' = [total_size |-> TotalSizeField(file_count, m.calculated, repo_api_size),
                        file_count |-> Str(file_count),
                        largest_file_size |-> format_size_in_kb(m.largest)]
    /\ stPc' = "done"
    /\ UNCHANGED <<vcVars, restVars, repo_api_size, file_count, sizes_from_metadata, successful_measurements,
                   files_left, probe_requests>>

StNext ==
    \/ StatsRepoRequest
    \/ StatsItemsRequest
    \/ ProbeFile
    \/ FinalizeStats

\* get_project_version_control_type is not running
VCIdle ==
    /\ vcPc = "idle"
    /\ tfvc_info = TfvcInfoInit
    /\ git_info = GitInfoInit
    /\ git_todo = 0
    /\ git_acc = GitAccInit
    /\ now = None
    /\ project_type = "NONE"
    /\ decided_by = "none"
    /\ determine_called = FALSE
    /\ other_resp = None
    /\ probe_status = NoRequests

\* get_repo_statistics is not running
StIdle ==
    /\ stPc = "idle"
    /\ repo_api_size = None
    /\ file_count = 0
    /\ calculated_total_size = 0
    /\ largest_size = 0
    /\ sizes_from_metadata = 0
    /\ successful_measurements = 0
    /\ files_left = 0
    /\ probe_requests = 0
    /\ stats = StatsInitial

(***************************************************************************)
(* process_project                                                         *)
(***************************************************************************)
\* f"{num / den:.2f}" as the number of hundredths, rounded half to even
Fixed2(num, den) ==
    LET q == (num * 100) \div den
        r == (num * 100) % den
    IN  [kind |-> "fixed2",
         n |-> IF 2 * r > den THEN q + 1
               ELSE IF 2 * r = den THEN q + (q % 2)
               ELSE q]

\* lines 449-468: resp is what GET _apis/git/repositories/{id} answers
get_repo_size_mb(resp) ==
    IF resp.status = "error" THEN Text("Error")
    ELSE IF resp.status = "non200" THEN Text("Unknown")
    ELSE IF resp.size # None /\ Val(resp.size) > 0 THEN Fixed2(Val(resp.size), 1024 * 1024)
    ELSE Fixed2(0, 1)

\* lines 1002-1009, 1032-1039, 1063-1070: the MB column derived from the KB one
KbToMb(kb) ==
    IF kb.kind = "num" THEN Fixed2(kb.n, 1024) ELSE Text("N/A")

\* names under which the repository listing may report repositories
RepoNames == {"app", "lib"}

\* GET _apis/git/repositories of the project (lines 115-127): a transport or
\* HTTP error gives the empty list, as does a project without repositories
ProjectRepoListings ==
    {l \in SeqUpTo(RepoNames, Cardinality(RepoNames)) : \A i, j \in 1..Len(l) : l[i] = l[j] => i = j}

\* item listings of the repositories a project holds: up to MaxSized files
\* with a metadata size and at most one file without
ProjectItemsResponses ==
    {r \in StatItemsResponses : r.listing.unsized <= 1 /\ r.listing.others = 0}

\* what the Content-Length loop of lines 637-665 measured in total
ProbeTotals == {[total |-> 0, largest |-> 0]} \cup {[total |-> l, largest |-> l] : l \in ContentLengths}

\* get_repo_statistics as a function of what its requests were answered:
\* the repository resource, the item listing and the Content-Length loop
get_repo_statistics(repo_resp, items_resp, probed) ==
    IF repo_resp.status = "error" \/ items_resp.status = "error" THEN StatsAllZero
    ELSE LET api_size == IF repo_resp.status = "ok" THEN repo_resp.size ELSE None
         IN  IF items_resp.status = "non200" THEN StatsItemsFailed(api_size)
             ELSE LET listing == items_resp.listing
                      files == Len(listing.sized) + listing.unsized
                      probing == files > 0 /\ ShouldProbe(Len(listing.sized), files)
                      calculated == SumSeq(listing.sized) + (IF probing THEN probed.total ELSE 0)
                      largest == IF probing THEN probed.largest ELSE MaxSeq(listing.sized)
                      m == Method3(files, calculated, largest, api_size)
                  IN  [total_size |-> TotalSizeField(files, m.calculated, api_size),
                       file_count |-> Str(files),
                       largest_file_size |-> format_size_in_kb(m.largest)]

\* lines 743-826 and 875-944: total_size and file_count as get_tfvc_statistics
\* and get_file_storage_info may report them
SideStatistics ==
    {[total_size |-> Text("Unknown"), file_count |-> Text("Unknown")],
     [total_size |-> Text("Error"), file_count |-> Text("Error")],
     [total_size |-> Str(0), file_count |-> Str(0)],
     [total_size |-> Str(2048), file_count |-> Str(3)]}

\* lines 962-973: the row of a Git project without repositories
NoRepositoriesRow(ptype) ==
    [project_type |-> ptype, repo |-> "No repositories found",
     kb |-> Text("N/A"), mb |-> Text("N/A"), files |-> Text("N/A")]

\* RepositoryRow with the kind of the else branch of lines 1057-1086
RepositoryRow_BasicInfo(ptype, name, repo_stats, repo_size_mb) ==
    [project_type |-> "Unknown (Basic Info)", repo |-> name,
     kb |-> repo_stats.total_size, mb |-> repo_size_mb, files |-> repo_stats.file_count]

\* lines 983-994: the row of one repository
RepositoryRow(ptype, name, repo_stats, repo_size_mb) ==
    [project_type |-> ptype, repo |-> name,
     kb |-> repo_stats.total_size, mb |-> repo_size_mb, files |-> repo_stats.file_count]

\* lines 1014-1025, 1044-1055, 1075-1086: the single row of a project that
\* is no Git project; the project name stands for the repository name
ProjectRow(ptype, side_stats) ==
    [project_type |-> ptype, repo |-> "project",
     kb |-> side_stats.total_size, mb |-> KbToMb(side_stats.total_size), files |-> side_stats.file_count]

PjInit ==
    /\ pjPc = "classify"
    /\ pj_type = "NONE"
    /\ pj_repos = << >>
    /\ pj_seen = << >>
    /\ project_data = << >>

\* line 953: get_project_version_control_type returns one of the five kinds
\* or raises (the ValueError of line 352); lines 996-1086 for the kinds
\* other than GIT
ClassifyProject ==
    /\ pjPc = "classify"
    /\ \E outcome \in {"GIT", "TFVC", "ARTIFACTS", "WIKI", "FILE_STORAGE", "raise"} :
          IF outcome = "raise"
          THEN /\ pjPc' = "raised"
               /\ UNCHANGED <<pj_type, project_data>>
          ELSE IF outcome = "GIT"
          THEN /\ pjPc' = "list_repos"
               /\ pj_type' = outcome
               /\ UNCHANGED project_data
          ELSE /\ \E side \in SideStatistics :
                     project_data' = Append(project_data, ProjectRow(outcome, side))
               /\ pj_type' = outcome
               /\ pjPc' = "done"
    /\ UNCHANGED <<pjRest, pj_repos, pj_seen>>

\* lines 956-973: the repository listing and the row of an empty project
ListRepos ==
    /\ pjPc = "list_repos"
    /\ \E l \in ProjectRepoListings :
          /\ pj_repos' = l
          /\ IF l = << >>
             THEN /\ project_data' = Append(project_data, NoRepositoriesRow(pj_type))
                  /\ pjPc' = "done"
             ELSE /\ project_data' = project_data
                  /\ pjPc' = "repo"
    /\ UNCHANGED <<pjRest, pj_type, pj_seen>>

\* lines 975-994: one iteration of 'for repo in repos'.  The repository has
\* one size (or reports none); the request of get_repo_statistics and the
\* one of get_repo_size_mb for it succeed or fail independently.
ProcessRepo ==
    /\ pjPc = "repo"
    /\ LET i == Len(project_data) + 1
       IN  \E size \in Opt(StatRepoSizes), st1, st2 \in {"ok", "non200", "error"},
              items_resp \in ProjectItemsResponses, probed \in ProbeTotals :
              LET answer(st) == [status |-> st, size |-> IF st = "ok" THEN size ELSE None]
                  repo_stats == get_repo_statistics(answer(st1), items_resp, probed)
                  repo_size_mb == get_repo_size_mb(answer(st2))
              IN  /\ project_data' = Append(project_data,
                                            RepositoryRow(pj_type, pj_repos[i], repo_stats, repo_size_mb))
                  /\ pj_seen' = Append(pj_seen,
                                       [size |-> answer(st1).size,
                                        items |-> IF st1 = "error" THEN "none" ELSE items_resp.status,
                                        meta |-> IF st1 # "error" /\ items_resp.status = "ok"
                                                 THEN SumSeq(items_resp.listing.sized) ELSE 0])
                  /\ pjPc' = IF i = Len(pj_repos) THEN "done" ELSE "repo"
    /\ UNCHANGED <<pjRest, pj_type, pj_repos>>

PjNext ==
    \/ ClassifyProject
    \/ ListRepos
    \/ ProcessRepo

\* process_project is not running
PjIdle ==
    /\ pjPc = "idle"
    /\ pj_type = "NONE"
    /\ pj_repos = << >>
    /\ pj_seen = << >>
    /\ project_data = << >>

(***************************************************************************)
(* main and process_organization: the two nested worker pools              *)
(***************************************************************************)
\* the organizations file, one distinct name per line
organizations == <<"acme", "globex">>

Orgs == {organizations[i] : i \in 1..Len(organizations)}

Projects == 1..MaxProjects

\* values given to --max-org-workers and --max-project-workers
WorkerWidths == {1, 2}

\* numbers of rows the process_project calls of one run return (every
\* branch of lines 956-1086 appends at least one row)
RowCounts == {1, 2}

\* the rows process_project returned for project p of organization o
RowsOf(o, p, n) == [k \in 1..n |-> [org |-> o, project |-> p, k |-> k]]

\* a worker of the outer pool is running process_organization for o
OrgInFlight(o) == org_pc[o] \in {"list", "submit", "collect"}

OrgsInFlight == {o \in Orgs : OrgInFlight(o)}

\* projects of o a worker of its inner pool is running process_project for
ProjectsInFlight(o) == {p \in Projects : proj_pc[<<o, p>>] = "inflight"}

\* StartOrganization without the cap of the outer pool
OrgWorkerFree_NoCap == TRUE

\* ThreadPoolExecutor(max_workers=args.max_org_workers), line 1150
OrgWorkerFree == Cardinality(OrgsInFlight) < max_org_workers

\* ThreadPoolExecutor(max_workers=max_project_workers), line 1104
ProjectWorkerFree(o) == Cardinality(ProjectsInFlight(o)) < max_project_workers

\* the futures as_completed may yield to process_organization (line 1110)
ProjectFutureDone(o, p) == proj_pc[<<o, p>>] \in {"returned", "raised"}

\* ProjectsHandled that is satisfied by the first handled future
ProjectsHandled_First(o) == \E p \in Projects : proj_pc[<<o, p>>] \in {"merged", "logged"}

\* every future of o was yielded and handled by the loop of lines 1110-1117
ProjectsHandled(o) == \A p \in Projects : proj_pc[<<o, p>>] \in {"none", "merged", "logged"}

\* OrgsHandled that is satisfied by the first handled future
OrgsHandled_First == \E o \in Orgs : org_pc[o] \in {"merged", "logged"}

\* every organization's future was yielded and handled by lines 1156-1164
OrgsHandled == \A o \in Orgs : org_pc[o] \in {"merged", "logged"}

\* ExtendOrgData dropping what the organization had collected before
ExtendOrgData_Overwrite(data, o, p) == RowsOf(o, p, proj_rows[<<o, p>>])

\* org_data.extend(project_data), line 1114
ExtendOrgData(data, o, p) == data \o RowsOf(o, p, proj_rows[<<o, p>>])

\* ExtendCsvData appending the organization's rows twice
ExtendCsvData_Twice(data, o) == data \o org_data[o] \o org_data[o]

\* csv_data.extend(org_data), line 1160
ExtendCsvData(data, o) == data \o org_data[o]

FoInit ==
    /\ foPc = "submit"
    /\ max_org_workers \in WorkerWidths
    /\ max_project_workers \in WorkerWidths
    /\ org_pc = [o \in Orgs |-> "unsubmitted"]
    /\ proj_pc = [op \in Orgs \X Projects |-> "none"]
    /\ proj_rows \in {[op \in Orgs \X Projects |-> n] : n \in RowCounts}
    /\ org_data = [o \in Orgs |-> << >>]
    /\ csv_data = << >>
    /\ csv_file = None

\* lines 1151-1154: main submits process_organization for the next
\* organization of the file
SubmitOrganization ==
    /\ foPc = "submit"
    /\ \E i \in 1..Len(organizations) :
          /\ org_pc[organizations[i]] = "unsubmitted"
          /\ \A j \in 1..(i - 1) : org_pc[organizations[j]] # "unsubmitted"
          /\ org_pc' = [org_pc EXCEPT ![organizations[i]] = "pending"]
          /\ foPc' = IF i = Len(organizations) THEN "collect" ELSE "submit"
    /\ UNCHANGED <<foRest, max_org_workers, max_project_workers, proj_pc, proj_rows, org_data, csv_data, csv_file>>

\* a worker of the outer pool takes a queued organization
StartOrganization(o) ==
    /\ org_pc[o] = "pending"
    /\ OrgWorkerFree
    /\ org_pc' = [org_pc EXCEPT ![o] = "list"]
    /\ UNCHANGED <<foRest, foPc, max_org_workers, max_project_workers, proj_pc, proj_rows, org_data, csv_data, csv_file>>

\* lines 1094-1102 (and 101-113): the project listing.  It returns n
\* projects, n = 0 also standing for a failed request; or the answer has an
\* entry without 'name' and line 109 raises a KeyError nobody catches.
ListProjects(o) ==
    /\ org_pc[o] = "list"
    /\ \/ \E n \in 0..MaxProjects :
             /\ proj_pc' = [op \in Orgs \X Projects |->
                               IF op[1] = o /\ op[2] <= n THEN "listed" ELSE proj_pc[op]]
             /\ org_pc' = [org_pc EXCEPT ![o] = IF n = 0 THEN "returned" ELSE "submit"]
       \/ /\ org_pc' = [org_pc EXCEPT ![o] = "raised"]
          /\ proj_pc' = proj_pc
    /\ UNCHANGED <<foRest, foPc, max_org_workers, max_project_workers, proj_rows, org_data, csv_data, csv_file>>

\* lines 1105-1108: process_organization submits process_project for its
\* next project
SubmitProject(o) ==
    /\ org_pc[o] = "submit"
    /\ \E p \in Projects :
          /\ proj_pc[<<o, p>>] = "listed"
          /\ \A q \in 1..(p - 1) : proj_pc[<<o, q>>] # "listed"
          /\ proj_pc' = [proj_pc EXCEPT ![<<o, p>>] = "pending"]
          /\ org_pc' = [org_pc EXCEPT ![o] =
                           IF \A q \in Projects : q > p => proj_pc[<<o, q>>] # "listed"
                           THEN "collect" ELSE "submit"]
    /\ UNCHANGED <<foRest, foPc, max_org_workers, max_project_workers, proj_rows, org_data, csv_data, csv_file>>

\* a worker of the organization's inner pool takes a queued project
StartProject(o, p) ==
    /\ proj_pc[<<o, p>>] = "pending"
    /\ ProjectWorkerFree(o)
    /\ proj_pc' = [proj_pc EXCEPT ![<<o, p>>] = "inflight"]
    /\ UNCHANGED <<foRest, foPc, max_org_workers, max_project_workers, org_pc, proj_rows, org_data, csv_data, csv_file>>

\* process_project (lines 946-1088) returns its rows or raises
FinishProject(o, p) ==
    /\ proj_pc[<<o, p>>] = "inflight"
    /\ \E outcome \in {"returned", "raised"} : proj_pc' = [proj_pc EXCEPT ![<<o, p>>] = outcome]
    /\ UNCHANGED <<foRest, foPc, max_org_workers, max_project_workers, org_pc, proj_rows, org_data,
                   csv_data, csv_file>>

\* lines 1110-1117: one iteration of 'for future in as_completed(...)' of
\* process_organization
CollectProject(o, p) ==
    /\ org_pc[o] = "collect"
    /\ ProjectFutureDone(o, p)
    /\ IF proj_pc[<<o, p>>] = "returned"
       THEN /\ org_data' = [org_data EXCEPT ![o] = ExtendOrgData(org_data[o], o, p)]
            /\ proj_pc' = [proj_pc EXCEPT ![<<o, p>>] = "merged"]
       ELSE /\ org_data' = org_data
            /\ proj_pc' = [proj_pc EXCEPT ![<<o, p>>] = "logged"]
    /\ UNCHANGED <<foRest, foPc, max_org_workers, max_project_workers, org_pc, proj_rows, csv_data, csv_file>>

\* lines 1117-1119: as_completed is exhausted, the inner pool is shut down
\* and process_organization returns org_data
ReturnOrganization(o) ==
    /\ org_pc[o] = "collect"
    /\ ProjectsHandled(o)
    /\ org_pc' = [org_pc EXCEPT ![o] = "returned"]
    /\ UNCHANGED <<foRest, foPc, max_org_workers, max_project_workers, proj_pc, proj_rows, org_data, csv_data, csv_file>>

\* lines 1156-1164: one iteration of 'for future in as_completed(...)' of
\* main
CollectOrganization(o) ==
    /\ foPc = "collect"
    /\ org_pc[o] \in {"returned", "raised"}
    /\ IF org_pc[o] = "returned"
       THEN /\ csv_data' = ExtendCsvData(csv_data, o)
            /\ org_pc' = [org_pc EXCEPT ![o] = "merged"]
       ELSE /\ csv_data' = csv_data
            /\ org_pc' = [org_pc EXCEPT ![o] = "logged"]
    /\ UNCHANGED <<foRest, foPc, max_org_workers, max_project_workers, proj_pc, proj_rows, org_data, csv_file>>

\* line 1164: as_completed is exhausted and the outer pool is shut down
LeavePool ==
    /\ foPc = "collect"
    /\ OrgsHandled
    /\ foPc' = "export"
    /\ UNCHANGED <<foRest, max_org_workers, max_project_workers, org_pc, proj_pc, proj_rows, org_data, csv_data, csv_file>>

\* lines 1166-1194: the CSV file is written unless there is no row
ExportCsv ==
    /\ foPc = "export"
    /\ csv_file' = IF csv_data # << >> THEN Some(csv_data) ELSE None
    /\ foPc' = "done"
    /\ UNCHANGED <<foRest, max_org_workers, max_project_workers, org_pc, proj_pc, proj_rows, org_data, csv_data>>

FoNext ==
    \/ SubmitOrganization
    \/ \E o \in Orgs : StartOrganization(o)
    \/ \E o \in Orgs : ListProjects(o)
    \/ \E o \in Orgs : SubmitProject(o)
    \/ \E o \in Orgs, p \in Projects : StartProject(o, p)
    \/ \E o \in Orgs, p \in Projects : FinishProject(o, p)
    \/ \E o \in Orgs, p \in Projects : CollectProject(o, p)
    \/ \E o \in Orgs : ReturnOrganization(o)
    \/ \E o \in Orgs : CollectOrganization(o)
    \/ LeavePool
    \/ ExportCsv

\* the inventory script is not running
FoIdle ==
    /\ foPc = "idle"
    /\ max_org_workers = 0
    /\ max_project_workers = 0
    /\ org_pc = [o \in Orgs |-> "unsubmitted"]
    /\ proj_pc = [op \in Orgs \X Projects |-> "none"]
    /\ proj_rows = [op \in Orgs \X Projects |-> 0]
    /\ org_data = [o \in Orgs |-> << >>]
    /\ csv_data = << >>
    /\ csv_file = None

(***************************************************************************)
(* GitHub inventory script: process_repo and store_repo_data               *)
(* (src/bitbucket/inventory_gh_given_repo.py)                              *)
(***************************************************************************)
\* names of the repositories of one page of the organization's listing
GhRepos == {"repo1", "repo2"}

\* line 518: workers = args.workers if args.workers else 5
DefaultWorkers == 5

\* process_repo calls a worker of the pool of line 553 is running
ReposInFlight == {r \in GhRepos : repo_pc[r] \in {"scan", "acquire", "locked", "appended"}}

\* every future of the page is done (as_completed of line 555 is exhausted)
RepoFuturesDone == \A r \in GhRepos : repo_pc[r] \in {"done", "raised"}

\* StoreAppend replacing the list by the one new entry
StoreAppend_Replace(list, r) == <<r>>

\* repo_data.append(data), line 44; the entry is named by its repository
StoreAppend(list, r) == Append(list, r)

GhInit ==
    /\ ghPc = "collect"
    /\ repo_pc = [r \in GhRepos |-> "pending"]
    /\ repo_data_lock = None
    /\ repo_data = << >>
    /\ output_file = None

\* a worker of the pool takes process_repo(repo) (lines 553-554)
StartRepo(r) ==
    /\ repo_pc[r] = "pending"
    /\ Cardinality(ReposInFlight) < DefaultWorkers
    /\ repo_pc' = [repo_pc EXCEPT ![r] = "scan"]
    /\ UNCHANGED <<ghRest, ghPc, repo_data_lock, repo_data, output_file>>

\* line 491: scan_repo(repo, deep_scan) returns the entry, or raises (a
\* missing key, an unparsable date) and process_repo ends without storing
ScanRepo(r) ==
    /\ repo_pc[r] = "scan"
    /\ \E outcome \in {"acquire", "raised"} : repo_pc' = [repo_pc EXCEPT ![r] = outcome]
    /\ UNCHANGED <<ghRest, ghPc, repo_data_lock, repo_data, output_file>>

\* line 41: with repo_data_lock - blocks while another thread holds it
AcquireRepoDataLock(r) ==
    /\ repo_pc[r] = "acquire"
    /\ repo_data_lock = None
    /\ repo_data_lock' = Some(r)
    /\ repo_pc' = [repo_pc EXCEPT ![r] = "locked"]
    /\ UNCHANGED <<ghRest, ghPc, repo_data, output_file>>

\* line 44
AppendRepoData(r) ==
    /\ repo_pc[r] = "locked"
    /\ repo_data' = StoreAppend(repo_data, r)
    /\ repo_pc' = [repo_pc EXCEPT ![r] = "appended"]
    /\ UNCHANGED <<ghRest, ghPc, repo_data_lock, output_file>>

\* end of the with-block of line 41
ReleaseRepoDataLock(r) ==
    /\ repo_pc[r] = "appended"
    /\ repo_data_lock' = None
    /\ repo_pc' = [repo_pc EXCEPT ![r] = "done"]
    /\ UNCHANGED <<ghRest, ghPc, repo_data, output_file>>

\* lines 555-559 and 582-625: every future was waited for, the pool is shut
\* down and every entry of repo_data is written to the output file
WriteOutputFile ==
    /\ ghPc = "collect"
    /\ RepoFuturesDone
    /\ output_file' = Some(repo_data)
    /\ ghPc' = "done"
    /\ UNCHANGED <<ghRest, repo_pc, repo_data_lock, repo_data>>

GhNext ==
    \/ \E r \in GhRepos : StartRepo(r)
    \/ \E r \in GhRepos : ScanRepo(r)
    \/ \E r \in GhRepos : AcquireRepoDataLock(r)
    \/ \E r \in GhRepos : AppendRepoData(r)
    \/ \E r \in GhRepos : ReleaseRepoDataLock(r)
    \/ WriteOutputFile

\* the repository pool of the GitHub script is not running
GhIdle ==
    /\ ghPc = "idle"
    /\ repo_pc = [r \in GhRepos |-> "idle"]
    /\ repo_data_lock = None
    /\ repo_data = << >>
    /\ output_file = None

(***************************************************************************)
(* GitHub inventory script: get_pat                                        *)
(***************************************************************************)
\* the tokens GH_SOURCE_PAT may list, in this order
TokenNames == <<"pat1", "pat2", "pat3", "pat4">>

\* os.getenv('GH_SOURCE_PAT').split(',') for a variable that lists k tokens
PatPool(k) == SubSeq(TokenNames, 1, k)

\* the threads that call get_pat: main (lines 529, 535) before the pool
\* exists, and the two tasks scan_repo runs side by side (lines 427-429)
PatThreads == {"main", "fetch_repo_data", "count_webhooks"}

\* calls of get_pat the run makes: three rounds over the pool
CallBudget == 3 * Len(pats)

\* calls that have begun
CallsBegun == Len(pat_returns) + Cardinality({t \in PatThreads : call_pc[t] # "idle"})

\* a Python list is indexed from 0
ListItem(list, i) == list[i + 1]

\* NextIndex stepping over every other token
NextIndex_Skip(index, n) == (index + 2) % n

\* line 91: (get_pat.index + 1) % len(get_pat.pats)
NextIndex(index, n) == (index + 1) % n

PatInit ==
    /\ pat_index = None
    /\ pats \in {PatPool(k) : k \in 1..MaxPats}
    /\ call_pc = [t \in PatThreads |-> "idle"]
    /\ call_index = [t \in PatThreads |-> 0]
    /\ pat_returns = << >>
    /\ pat_overlap = FALSE

\* lines 86-91: the thread enters get_pat, creates the attributes at the
\* first call and evaluates get_pat.index on the right-hand side of line 91.
\* main calls while no task of scan_repo runs; the tasks call once main has
\* made the first call.
BeginGetPat(t) ==
    /\ call_pc[t] = "idle"
    /\ CallsBegun < CallBudget
    /\ IF t = "main"
       THEN \A u \in PatThreads : call_pc[u] = "idle"
       ELSE pat_index # None /\ call_pc["main"] = "idle"
    /\ LET index == IF pat_index = None THEN 0 - 1 ELSE Val(pat_index)
       IN  /\ pat_index' = Some(index)
           /\ call_index' = [call_index EXCEPT ![t] = index]
    /\ pat_overlap' = (pat_overlap \/ \E u \in PatThreads \ {t} : call_pc[u] # "idle")
    /\ call_pc' = [call_pc EXCEPT ![t] = "store"]
    /\ UNCHANGED <<patRest, pats, pat_returns>>

\* line 91: the assignment to get_pat.index
StoreIndex(t) ==
    /\ call_pc[t] = "store"
    /\ pat_index' = Some(NextIndex(call_index[t], Len(pats)))
    /\ call_pc' = [call_pc EXCEPT ![t] = "return"]
    /\ UNCHANGED <<patRest, pats, call_index, pat_returns, pat_overlap>>

\* line 92: get_pat.index is evaluated again for the subscript
ReturnPat(t) ==
    /\ call_pc[t] = "return"
    /\ pat_returns' = Append(pat_returns, ListItem(pats, Val(pat_index)))
    /\ call_pc' = [call_pc EXCEPT ![t] = "idle"]
    /\ UNCHANGED <<patRest, pat_index, pats, call_index, pat_overlap>>

PatNext ==
    \/ \E t \in PatThreads : BeginGetPat(t)
    \/ \E t \in PatThreads : StoreIndex(t)
    \/ \E t \in PatThreads : ReturnPat(t)

\* get_pat was not called and is not being called
PatIdle ==
    /\ pat_index = None
    /\ pats = << >>
    /\ call_pc = [t \in PatThreads |-> "idle"]
    /\ call_index = [t \in PatThreads |-> 0]
    /\ pat_returns = << >>
    /\ pat_overlap = FALSE

(***************************************************************************)
(* GitHub inventory script: get_remaining_api_calls, wait_for_rate_limit   *)
(***************************************************************************)
\* the threads that call wait_for_rate_limit
RlCallers == {"caller1", "caller2"}

\* line 109: the loop goes on while fewer calls than this remain
SafetyMargin == 10

\* 'remaining' as GET /rate_limit may report it
Remainings == {0, SafetyMargin - 1, SafetyMargin}

\* 'reset' as GET /rate_limit may report it at the given local time: the
\* end of the current window, which by the local clock may be a tick in the
\* past as the two clocks need not agree
ResetTimes(t) == {r \in (t - 1)..(t + 2) : r >= 0 /\ r <= MaxClock}

\* get_pat (lines 85-92) called by the one thread that holds
\* rate_limit_lock: the index after the call
IndexAfterGetPat ==
    NextIndex(IF pat_index = None THEN 0 - 1 ELSE Val(pat_index), Len(pats))

\* TimeToReset that never waits
TimeToReset_Zero(reset_time, now_) == 0

\* line 111: time_to_reset = reset_time - datetime.now()
TimeToReset(reset_time, now_) == reset_time - now_

RlInit ==
    /\ enterprise \in BOOLEAN
    /\ clock = 1
    /\ rate_limit_lock = None
    /\ rl_pc = [c \in RlCallers |-> "call"]
    /\ rl_remaining = [c \in RlCallers |-> None]
    /\ rl_reset = [c \in RlCallers |-> None]
    /\ rl_wake = [c \in RlCallers |-> 0]
    /\ rl_cred = [c \in RlCallers |-> [remaining |-> None, reset |-> None]]
    /\ rl_requests = [c \in RlCallers |-> 0]
    /\ rl_requests_at_sleep = [c \in RlCallers |-> 0]

\* line 108: with rate_limit_lock - blocks while another caller holds it
EnterWait(c) ==
    /\ rl_pc[c] = "call"
    /\ rate_limit_lock = None
    /\ rate_limit_lock' = Some(c)
    /\ rl_pc' = [rl_pc EXCEPT ![c] = "remaining"]
    /\ UNCHANGED <<rlRest, pat_index, pat_returns, enterprise, clock, rl_remaining, rl_reset, rl_wake,
                   rl_cred, rl_requests, rl_requests_at_sleep>>

\* line 109: get_remaining_api_calls(org_name)[0] < 10.  On an enterprise
\* server lines 103-105 give (0, 0) without a request; otherwise lines
\* 96-102 send GET /rate_limit with the next token, and the request or
\* raise_for_status may raise.
CheckRemaining(c) ==
    /\ rl_pc[c] = "remaining"
    /\ IF enterprise
       THEN /\ rl_remaining' = [rl_remaining EXCEPT ![c] = Some(0)]
            /\ rl_cred' = [rl_cred EXCEPT ![c] = [remaining |-> None, reset |-> None]]
            /\ rl_pc' = [rl_pc EXCEPT ![c] = "reset"]
            /\ UNCHANGED <<pat_index, pat_returns, rl_requests, rate_limit_lock>>
       ELSE /\ rl_requests[c] < MaxQuotaRequests
            /\ pat_index' = Some(IndexAfterGetPat)
            /\ pat_returns' = Append(pat_returns, ListItem(pats, IndexAfterGetPat))
            /\ rl_requests' = [rl_requests EXCEPT ![c] = @ + 1]
            /\ rl_cred' = [rl_cred EXCEPT ![c] = [remaining |-> Some(ListItem(pats, IndexAfterGetPat)),
                                                  reset |-> None]]
            /\ \/ /\ rl_pc' = [rl_pc EXCEPT ![c] = "raised"]
                  /\ rate_limit_lock' = None
                  /\ rl_remaining' = rl_remaining
               \/ \E remaining \in Remainings :
                     /\ rl_remaining' = [rl_remaining EXCEPT ![c] = Some(remaining)]
                     /\ IF remaining < SafetyMargin
                        THEN /\ rl_pc' = [rl_pc EXCEPT ![c] = "reset"]
                             /\ rate_limit_lock' = rate_limit_lock
                        ELSE /\ rl_pc' = [rl_pc EXCEPT ![c] = "returned"]
                             /\ rate_limit_lock' = None
    /\ UNCHANGED <<rlRest, enterprise, clock, rl_reset, rl_wake, rl_requests_at_sleep>>

\* line 110: get_remaining_api_calls(org_name)[1], a second quota check
CheckReset(c) ==
    /\ rl_pc[c] = "reset"
    /\ IF enterprise
       THEN /\ rl_reset' = [rl_reset EXCEPT ![c] = Some(0)]
            /\ rl_pc' = [rl_pc EXCEPT ![c] = "sleep_length"]
            /\ UNCHANGED <<pat_index, pat_returns, rl_requests, rl_cred, rate_limit_lock>>
       ELSE /\ rl_requests[c] < MaxQuotaRequests
            /\ pat_index' = Some(IndexAfterGetPat)
            /\ pat_returns' = Append(pat_returns, ListItem(pats, IndexAfterGetPat))
            /\ rl_requests' = [rl_requests EXCEPT ![c] = @ + 1]
            /\ rl_cred' = [rl_cred EXCEPT ![c].reset = Some(ListItem(pats, IndexAfterGetPat))]
            /\ \/ /\ rl_pc' = [rl_pc EXCEPT ![c] = "raised"]
                  /\ rate_limit_lock' = None
                  /\ rl_reset' = rl_reset
               \/ \E reset \in ResetTimes(clock) :
                     /\ rl_reset' = [rl_reset EXCEPT ![c] = Some(reset)]
                     /\ rl_pc' = [rl_pc EXCEPT ![c] = "sleep_length"]
                     /\ rate_limit_lock' = rate_limit_lock
    /\ UNCHANGED <<rlRest, enterprise, clock, rl_remaining, rl_wake, rl_requests_at_sleep>>

\* lines 111-113: the clock is read and time.sleep is called; a negative
\* length makes time.sleep raise ValueError
StartSleep(c) ==
    /\ rl_pc[c] = "sleep_length"
    /\ LET time_to_reset == TimeToReset(Val(rl_reset[c]), clock)
       IN  IF time_to_reset < 0
           THEN /\ rl_pc' = [rl_pc EXCEPT ![c] = "raised"]
                /\ rate_limit_lock' = None
                /\ UNCHANGED <<rl_wake, rl_requests_at_sleep>>
           ELSE /\ rl_pc' = [rl_pc EXCEPT ![c] = "sleep"]
                /\ rl_wake' = [rl_wake EXCEPT ![c] = clock + time_to_reset]
                /\ rl_requests_at_sleep' = [rl_requests_at_sleep EXCEPT ![c] = rl_requests[c]]
                /\ rate_limit_lock' = rate_limit_lock
    /\ UNCHANGED <<rlRest, pat_index, pat_returns, enterprise, clock, rl_remaining, rl_reset, rl_cred,
                   rl_requests>>

\* line 113: time.sleep returns once the time asked for has passed
WakeUp(c) ==
    /\ rl_pc[c] = "sleep"
    /\ clock >= rl_wake[c]
    /\ rl_pc' = [rl_pc EXCEPT ![c] = "remaining"]
    /\ UNCHANGED <<rlRest, pat_index, pat_returns, enterprise, clock, rate_limit_lock, rl_remaining,
                   rl_reset, rl_wake, rl_cred, rl_requests, rl_requests_at_sleep>>

\* time passes while some caller has not left wait_for_rate_limit
Tick ==
    /\ clock < MaxClock
    /\ \E c \in RlCallers : rl_pc[c] \notin {"returned", "raised", "idle"}
    /\ clock' = clock + 1
    /\ UNCHANGED <<rlRest, pat_index, pat_returns, enterprise, rate_limit_lock, rl_pc, rl_remaining,
                   rl_reset, rl_wake, rl_cred, rl_requests, rl_requests_at_sleep>>

RlNext ==
    \/ \E c \in RlCallers : EnterWait(c)
    \/ \E c \in RlCallers : CheckRemaining(c)
    \/ \E c \in RlCallers : CheckReset(c)
    \/ \E c \in RlCallers : StartSleep(c)
    \/ \E c \in RlCallers : WakeUp(c)
    \/ Tick

\* wait_for_rate_limit is not being called
RlIdle ==
    /\ enterprise = FALSE
    /\ clock = 1
    /\ rate_limit_lock = None
    /\ rl_pc = [c \in RlCallers |-> "idle"]
    /\ rl_remaining = [c \in RlCallers |-> None]
    /\ rl_reset = [c \in RlCallers |-> None]
    /\ rl_wake = [c \in RlCallers |-> 0]
    /\ rl_cred = [c \in RlCallers |-> [remaining |-> None, reset |-> None]]
    /\ rl_requests = [c \in RlCallers |-> 0]
    /\ rl_requests_at_sleep = [c \in RlCallers |-> 0]

(***************************************************************************)
(* Start of main in the Azure DevOps scripts: the organizations file and   *)
(* the ADO_PAT variable (collect-ado-inventory.py and collect-ado-users.py *)
(* share the code)                                                         *)
(***************************************************************************)
\* what open(filename) can do: succeed, raise FileNotFoundError, raise
\* another exception (a directory, a file that is not UTF-8, ...)
OrgsFileStates == {"present", "missing", "unreadable"}

\* values of the environment variable: unset, set to '', set to a token
AdoPatValues == {None, Some(""), Some("ado-token")}

\* lines 74-81: the messages of the two except branches
LoadMessages(file) ==
    IF file = "missing"
    THEN <<"Error: File not found.", "Please make sure the organizations file exists.",
           "Usage: python collect-ado-inventory.py <organizations_file>">>
    ELSE IF file = "unreadable" THEN <<"Error reading file">>
    ELSE <<"Loaded organizations from file">>

LoadOutcome_Continue(file) == "token"

\* lines 67-81: load_organizations_from_file returns the list, or calls
\* sys.exit(1) from either except branch
LoadOutcome(file) == IF file = "present" THEN "token" ELSE "exited"

\* line 86: `if not token`
TokenMissing(env) == env = None \/ Val(env) = ""

SuInit ==
    /\ suPc = "load"
    /\ orgs_file \in OrgsFileStates
    /\ ADO_PAT \in AdoPatValues
    /\ token = None
    /\ exit_status = None
    /\ printed = << >>

\* lines 1139-1141: organizations = load_organizations_from_file(args.orgs_file)
LoadOrganizations ==
    /\ suPc = "load"
    /\ suPc' = LoadOutcome(orgs_file)
    /\ printed' = printed \o LoadMessages(orgs_file)
    /\ exit_status' = IF LoadOutcome(orgs_file) = "exited" THEN Some(1) ELSE None
    /\ UNCHANGED <<vcVars, stVars, pjVars, foVars, ghVars, patVars, rlVars, orgs_file, ADO_PAT, token>>

\* lines 1143-1145 and 83-90: token = get_ado_token()
GetAdoToken ==
    /\ suPc = "token"
    /\ IF TokenMissing(ADO_PAT)
       THEN /\ printed' = printed \o <<"Error: ADO_PAT environment variable not set.",
                                        "Please set it using: export ADO_PAT">>
            /\ exit_status' = Some(1)
            /\ suPc' = "exited"
            /\ token' = token
       ELSE /\ printed' = printed \o <<"ADO_PAT token loaded successfully">>
            /\ exit_status' = exit_status
            /\ suPc' = "pool"
            /\ token' = ADO_PAT
    /\ UNCHANGED <<vcVars, stVars, pjVars, foVars, ghVars, patVars, rlVars, orgs_file, ADO_PAT>>

\* lines 1146-1150: main announces the start and creates the pool of
\* organization workers
StartPool ==
    /\ suPc = "pool"
    /\ foPc = "idle"
    /\ suPc' = "running"
    /\ printed' = printed \o <<"Starting parallel processing">>
    /\ foPc' = "submit"
    /\ max_org_workers' \in WorkerWidths
    /\ max_project_workers' \in WorkerWidths
    /\ proj_rows' \in {[op \in Orgs \X Projects |-> n] : n \in RowCounts}
    /\ UNCHANGED <<vcVars, stVars, pjVars, ghVars, patVars, rlVars, org_pc, proj_pc, org_data,
                   csv_data, csv_file, orgs_file, ADO_PAT, token, exit_status>>

SuNext == LoadOrganizations \/ GetAdoToken \/ StartPool

\* the start of main is not being run
SuIdle ==
    /\ suPc = "idle"
    /\ orgs_file = "present"
    /\ ADO_PAT = None
    /\ token = None
    /\ exit_status = None
    /\ printed = << >>

\* nothing but the classifier or the size cascade is running
RestIdle == PjIdle /\ FoIdle /\ GhIdle /\ PatIdle /\ RlIdle /\ SuIdle

(***************************************************************************)
(* Specifications                                                          *)
(***************************************************************************)
InitVC == VCInit /\ StIdle /\ RestIdle

SpecVC == InitVC /\ [][VCNext]_vars

InitStats == StInit /\ VCIdle /\ RestIdle

SpecStats == InitStats /\ [][StNext]_vars

InitProject == PjInit /\ VCIdle /\ StIdle /\ FoIdle /\ GhIdle /\ PatIdle /\ RlIdle /\ SuIdle

SpecProject == InitProject /\ [][PjNext]_vars

InitFanout == FoInit /\ VCIdle /\ StIdle /\ PjIdle /\ GhIdle /\ PatIdle /\ RlIdle /\ SuIdle

SpecFanout == InitFanout /\ [][FoNext]_vars

InitRepoPool == GhInit /\ VCIdle /\ StIdle /\ PjIdle /\ FoIdle /\ PatIdle /\ RlIdle /\ SuIdle

\* either inventory script is run: the Azure DevOps one with its two pools,
\* or the GitHub one with its repository pool
InitCollect == InitFanout \/ InitRepoPool

SpecCollect == InitCollect /\ [][FoNext \/ GhNext]_vars

InitPat == PatInit /\ VCIdle /\ StIdle /\ PjIdle /\ FoIdle /\ GhIdle /\ RlIdle /\ SuIdle

SpecPat == InitPat /\ [][PatNext]_vars

InitRateLimit == RlInit /\ PatInit /\ VCIdle /\ StIdle /\ PjIdle /\ FoIdle /\ GhIdle /\ SuIdle

SpecRateLimit == InitRateLimit /\ [][RlNext]_vars

\* a whole run of the Azure DevOps inventory script: the start of main, then
\* the two pools
InitStartup == SuInit /\ VCIdle /\ StIdle /\ PjIdle /\ FoIdle /\ GhIdle /\ PatIdle /\ RlIdle

SpecStartup == InitStartup /\ [][SuNext \/ FoNext]_vars

(***************************************************************************)
(* Properties of get_project_version_control_type (under SpecVC)           *)
(***************************************************************************)
\* both probes have returned and the decision of lines 141-153 was taken
Decided == vcPc \in {"determine", "other", "done", "raised"}

\* the call has ended, by a return or by an exception
Ended == vcPc \in {"done", "raised"}

TfvcSize == get_system_size_estimate(tfvc_info, "tfvc")

GitSize == get_system_size_estimate(git_info, "git")

\* determine_primary_version_control_inline ran and its size stage decided nothing
SizeInconclusive == Ended /\ determine_called /\ decided_by # "size"

\* last_activity lies within the two years that end at the clock value read
WithinTwoYears(info) ==
    info.last_activity # None /\ Val(info.last_activity) > Val(now) - 2 * 10000

\* the content-volume rule, as the specification words it
VolumeRuleResult ==
    IF git_info.total_files > tfvc_info.item_count THEN "GIT"
    ELSE IF tfvc_info.item_count > 2 * git_info.total_files THEN "TFVC"
    ELSE "GIT"

\* C1: when exactly one of the Git probe and the TFVC probe has content, the
\* returned kind is that backend and determine_primary_version_control_inline
\* is not invoked.
C1_SingleContentDecides ==
    (Decided /\ tfvc_info.has_content # git_info.has_content)
        => /\ vcPc = "done"
           /\ project_type = (IF git_info.has_content THEN "GIT" ELSE "TFVC")
           /\ ~determine_called

\* TFVC with items and no size data, Git without any repository with content
C1_Witness ==
    /\ vcPc = "done"
    /\ tfvc_info.has_content /\ tfvc_info.item_count = MaxItems /\ tfvc_info.total_size = 0
    /\ ~git_info.has_content /\ git_info.repo_count = 0
    /\ project_type = "TFVC"

\* C2: when both probes have content, the strictly larger size estimate
\* decides (GIT if Git's is larger, TFVC if TFVC's is larger), whatever the
\* last_activity values and the file and item counts are.
C2_LargerSizeWins ==
    (Decided /\ vcPc # "determine" /\ tfvc_info.has_content /\ git_info.has_content)
        => /\ GitSize > TfvcSize => (vcPc = "done" /\ project_type = "GIT")
           /\ TfvcSize > GitSize => (vcPc = "done" /\ project_type = "TFVC")

\* TFVC has the larger estimate although Git has more files and the only
\* (recent) activity
C2_Witness ==
    /\ vcPc = "done"
    /\ tfvc_info.has_content /\ git_info.has_content
    /\ TfvcSize > GitSize /\ GitSize > 0
    /\ git_info.total_files > tfvc_info.item_count
    /\ git_info.last_activity = Some(MkDate(2027, 6, 1))
    /\ project_type = "TFVC"

\* C3: in determine_primary_version_control_inline, if exactly one of the two
\* size estimates is usable (> 0) that backend is returned at the size stage;
\* if the estimates are equal, or both 0, the size stage returns nothing and
\* the decision goes on to the recency rule (the clock is read).
C3_SizeStageOutcome ==
    (Ended /\ determine_called)
        => /\ (GitSize > 0 /\ TfvcSize = 0) => (project_type = "GIT" /\ decided_by = "size")
           /\ (TfvcSize > 0 /\ GitSize = 0) => (project_type = "TFVC" /\ decided_by = "size")
           /\ (GitSize = TfvcSize) => (decided_by \in {"recency", "volume"} /\ now # None)

\* equal, usable estimates: the decision was taken after the size stage
C3_Witness ==
    /\ vcPc = "done" /\ determine_called
    /\ GitSize = TfvcSize /\ GitSize > 0
    /\ decided_by = "recency"

\* C4 (as claimed): when the size stage is inconclusive and exactly one
\* backend's last_activity lies within the two years before 'now', that
\* backend is returned; a missing last_activity counts as not recent.
C4_OnlyRecentWins ==
    SizeInconclusive
        => /\ (WithinTwoYears(git_info) /\ ~WithinTwoYears(tfvc_info))
                => (vcPc = "done" /\ project_type = "GIT")
           /\ (WithinTwoYears(tfvc_info) /\ ~WithinTwoYears(git_info))
                => (vcPc = "done" /\ project_type = "TFVC")

\* C5 (as claimed): when the size stage is inconclusive and both backends are
\* recent, or neither is, the result is the one of the content-volume rule.
C5_RecencyTieFallsThrough ==
    (SizeInconclusive /\ (WithinTwoYears(git_info) <=> WithinTwoYears(tfvc_info)))
        => (vcPc = "done" /\ project_type = VolumeRuleResult)

\* C6: when the content-volume rule is reached, GIT is returned if Git has
\* more files than TFVC has items, TFVC only if TFVC has more than twice as
\* many items as Git has files, and GIT in every other case.
C6_VolumeRule ==
    (Ended /\ decided_by = "volume")
        => /\ vcPc = "done"
           /\ git_info.total_files > tfvc_info.item_count => project_type = "GIT"
           /\ tfvc_info.item_count > 2 * git_info.total_files => project_type = "TFVC"
           /\ (git_info.total_files <= tfvc_info.item_count
               /\ tfvc_info.item_count <= 2 * git_info.total_files) => project_type = "GIT"

\* TFVC has more items than Git has files, but not more than twice as many
C6_Witness ==
    /\ vcPc = "done" /\ decided_by = "volume"
    /\ tfvc_info.item_count > git_info.total_files
    /\ tfvc_info.item_count <= 2 * git_info.total_files
    /\ project_type = "GIT"

\* C7: when neither Git nor TFVC has content, ARTIFACTS is returned if feeds
\* exist (even if wikis exist too), else WIKI if wikis exist, else
\* FILE_STORAGE; a failed or non-200 feed or wiki query counts as absence.
C7_OtherStorageOrder ==
    (Ended /\ ~tfvc_info.has_content /\ ~git_info.has_content)
        => /\ vcPc = "done" /\ other_resp # None
           /\ LET feedsExist == Val(other_resp).feeds.status = "ok" /\ Val(other_resp).feeds.count > 0
                  wikisExist == Val(other_resp).wikis.status = "ok" /\ Val(other_resp).wikis.count > 0
              IN  /\ feedsExist => project_type = "ARTIFACTS"
                  /\ (~feedsExist /\ wikisExist) => project_type = "WIKI"
                  /\ (~feedsExist /\ ~wikisExist) => project_type = "FILE_STORAGE"

\* feeds and wikis both exist: the feeds decide
C7_Witness ==
    /\ vcPc = "done" /\ other_resp # None
    /\ Val(other_resp).feeds.status = "ok" /\ Val(other_resp).feeds.count > 0
    /\ Val(other_resp).wikis.status = "ok" /\ Val(other_resp).wikis.count > 0
    /\ project_type = "ARTIFACTS"

\* C8 (as claimed): classification is total - for every combination of probe
\* results and every value of 'now' the call returns one of the five kinds
\* and never raises.
C8_ClassificationTotal ==
    /\ vcPc # "raised"
    /\ vcPc = "done" => project_type \in {"GIT", "TFVC", "ARTIFACTS", "WIKI", "FILE_STORAGE"}

(***************************************************************************)
(* Properties of get_repo_statistics (under SpecStats)                     *)
(***************************************************************************)
ApiSizeUsable == repo_api_size # None /\ Val(repo_api_size) > 0

\* C9 (as claimed): whenever the repository API reports a positive size S,
\* the reported total is ceil(S / 1024) KB, whatever the later requests
\* return and whether or not they fail.
C9_AuthoritativeVerbatim ==
    (stPc = "done" /\ ApiSizeUsable)
        => stats.total_size = Str(CeilDiv(Val(repo_api_size), 1024))

\* C10 (as claimed): length-probing requests are sent only if there is no
\* authoritative repository size, no per-item metadata size, and at most 50
\* files.
C10_ProbeOnlyAsLastResort ==
    probe_requests > 0
        => (~ApiSizeUsable /\ sizes_from_metadata = 0 /\ file_count <= ProbeFileCap)

\* C10 (amended): length-probing requests are sent only if the item listing
\* succeeded with between 1 and 50 files none of which carries a per-item
\* metadata size - whether or not an authoritative repository size was
\* reported; in every other case no probing request is sent.
C10_ProbeOnlyWithoutMetadata ==
    /\ probe_requests > 0
          => (sizes_from_metadata = 0 /\ file_count >= 1 /\ file_count <= ProbeFileCap)
    /\ (stPc \in {"finalize", "done"}
        /\ (sizes_from_metadata > 0 \/ file_count = 0 \/ file_count > ProbeFileCap))
          => probe_requests = 0

\* probing of a repository at the cap although its size is authoritative
C10_Witness ==
    /\ stPc = "done"
    /\ probe_requests > 0
    /\ file_count = ProbeFileCap
    /\ ApiSizeUsable

\* the call returned through the final statistics with a measured content
\* size and without an authoritative repository size
MeasuredWithoutApiSize ==
    stPc = "done" /\ ~ApiSizeUsable /\ calculated_total_size > 0

\* C11: with no authoritative repository size, a measured content size c
\* with 0 < c < 10000 is reported as max(50 * c, 40960) bytes, which is at
\* least the 40 KB minimum footprint, and a content size c >= 10000 is
\* reported as 8 * c bytes (the report gives the figure in KB, rounded up).
C11_SmallContentFootprint ==
    MeasuredWithoutApiSize
        => LET c == calculated_total_size
               estimate == IF c < 10000
                           THEN (IF 50 * c > 40960 THEN 50 * c ELSE 40960)
                           ELSE 8 * c
           IN  /\ stats.total_size = Str(CeilDiv(estimate, 1024))
               /\ c < 10000 => stats.total_size.n >= 40

\* ten bytes of content are reported as the 40 KB minimum footprint
C11_Witness ==
    /\ MeasuredWithoutApiSize
    /\ calculated_total_size = 10
    /\ stats.total_size = Str(40)

(***************************************************************************)
(* Properties of process_project (under SpecProject)                       *)
(***************************************************************************)
\* process_project returned the rows of a Git project with repositories
GitProjectDone == pjPc = "done" /\ pj_type = "GIT" /\ Len(pj_repos) >= 1

\* one row per listed repository, in listing order
RowsFollowListing ==
    /\ Len(project_data) = Len(pj_repos)
    /\ \A i \in 1..Len(pj_repos) : project_data[i].repo = pj_repos[i]

\* C12 (as claimed): a Git project with R >= 1 listed repositories yields
\* exactly R rows in listing order; a repository whose reported size is
\* 1048576 has 1024 in the KB column, and a repository without reported size
\* whose per-item metadata sizes sum to T > 0 has ceil(T / 1024) there.
C12_RepositoryRows ==
    GitProjectDone
        => /\ RowsFollowListing
           /\ \A i \in 1..Len(pj_seen) :
                 /\ pj_seen[i].size = Some(1048576) => project_data[i].kb = Str(1024)
                 /\ (pj_seen[i].size = None /\ pj_seen[i].meta > 0)
                       => project_data[i].kb = Str(CeilDiv(pj_seen[i].meta, 1024))

(***************************************************************************)
(* Properties of the fan-out (under SpecFanout)                            *)
(***************************************************************************)
\* the projects the listing of o returned
ListedProjects(o) == {p \in Projects : proj_pc[<<o, p>>] # "none"}

\* process_project ended for project p of o: Completed or Failed
ProjectTerminal(o, p) == proj_pc[<<o, p>>] \in {"returned", "raised", "merged", "logged"}

ProjectCompleted(o, p) == proj_pc[<<o, p>>] \in {"returned", "merged"}

ProjectFailed(o, p) == proj_pc[<<o, p>>] \in {"raised", "logged"}

\* the pools are left: main is about to write, or has written, the export
RunFinished == foPc \in {"export", "done"}

\* number of places of the list at which the row occurs
Occurrences(list, row) == Cardinality({i \in 1..Len(list) : list[i] = row})

\* C13: when the run finishes, every project of every organization whose
\* listing succeeded is in a terminal state, Completed or Failed - the
\* terminal work items are exactly the listed ones - whatever the
\* interleaving of the two pools and whichever projects failed.
C13_AllWorkItemsTerminal ==
    RunFinished
        => /\ \A o \in Orgs : \A p \in ListedProjects(o) : ProjectTerminal(o, p)
           /\ Cardinality({op \in Orgs \X Projects : ProjectTerminal(op[1], op[2])})
                 = Cardinality({op \in Orgs \X Projects : op[2] \in ListedProjects(op[1])})

\* both organizations listed MaxProjects projects; one project failed and
\* all its siblings completed
C13_Witness ==
    /\ foPc = "done"
    /\ \A o \in Orgs : ListedProjects(o) = Projects
    /\ ProjectFailed(organizations[1], 1)
    /\ \A p \in Projects \ {1} : ProjectCompleted(organizations[1], p)
    /\ \A p \in Projects : ProjectCompleted(organizations[2], p)

\* C14: a project whose processing raised contributes no row, an
\* organization whose processing raised contributes no row, and every row
\* of every completed project of every other organization is in the final
\* collection, which is what the export writes.
C14_FailureContributesNothing ==
    RunFinished
        => /\ \A o \in Orgs, p \in Projects, k \in RowCounts :
                 LET row == [org |-> o, project |-> p, k |-> k]
                 IN  /\ (ProjectFailed(o, p) \/ org_pc[o] = "logged") => Occurrences(csv_data, row) = 0
                     /\ (ProjectCompleted(o, p) /\ k <= proj_rows[<<o, p>>]) => Occurrences(csv_data, row) >= 1
           /\ (foPc = "done" /\ csv_data # << >>) => csv_file = Some(csv_data)

\* one organization raised, a project of the other one raised, and the rows
\* of its sibling were exported
C14_Witness ==
    /\ foPc = "done"
    /\ org_pc[organizations[1]] = "logged"
    /\ ProjectFailed(organizations[2], 1)
    /\ ProjectCompleted(organizations[2], 2)
    /\ csv_file = Some(RowsOf(organizations[2], 2, 2))

\* C15: at most max_org_workers organizations are in flight, at most
\* max_project_workers projects of any one organization are in flight, and
\* so at most max_org_workers * max_project_workers projects in all.
C15_WorkerCaps ==
    /\ Cardinality(OrgsInFlight) <= max_org_workers
    /\ \A o \in Orgs : Cardinality(ProjectsInFlight(o)) <= max_project_workers
    /\ Cardinality({op \in Orgs \X Projects : proj_pc[op] = "inflight"})
          <= max_org_workers * max_project_workers

\* both caps bind: an organization and a project wait for a worker
C15_Witness ==
    /\ Cardinality(OrgsInFlight) = max_org_workers
    /\ \E o \in Orgs : org_pc[o] = "pending"
    /\ \E o \in Orgs :
          /\ Cardinality(ProjectsInFlight(o)) = max_project_workers
          /\ \E p \in Projects : proj_pc[<<o, p>>] = "pending"

\* C16: an organization has returned, or is merged into the export
\* collection, only if each of its projects is in a terminal state; the
\* export starts only if every organization has completed; so no project is
\* in flight when its organization completes or when the export starts.
C16_CompletionOrder ==
    /\ \A o \in Orgs :
          org_pc[o] \in {"returned", "merged"}
             => \A p \in ListedProjects(o) : proj_pc[<<o, p>>] \in {"merged", "logged"}
    /\ RunFinished
          => /\ \A o \in Orgs : org_pc[o] \in {"merged", "logged"}
             /\ \A o \in Orgs, p \in Projects : proj_pc[<<o, p>>] \notin {"listed", "pending", "inflight"}
    /\ csv_file # None => foPc = "done"

\* the export was written after both organizations, each with MaxProjects
\* projects, completed
C16_Witness ==
    /\ csv_file # None
    /\ \A o \in Orgs : org_pc[o] = "merged" /\ ListedProjects(o) = Projects

(***************************************************************************)
(* Properties of the aggregation of results (under SpecCollect)            *)
(***************************************************************************)
\* C17: every row of a completed project of a completed organization is
\* exactly once in the collection the Azure DevOps script exports, and
\* every repository the GitHub script scanned is exactly once in the list it
\* writes; no other entry is in either collection, and none is ever there
\* twice.
C17_EachRecordOnce ==
    /\ \A o \in Orgs, p \in Projects, k \in RowCounts :
          LET row == [org |-> o, project |-> p, k |-> k]
          IN  /\ Occurrences(csv_data, row) <= 1
              /\ RunFinished =>
                    (Occurrences(csv_data, row) = 1
                        <=> (org_pc[o] = "merged" /\ ProjectCompleted(o, p) /\ k <= proj_rows[<<o, p>>]))
    /\ foPc = "done" => csv_file = (IF csv_data = << >> THEN None ELSE Some(csv_data))
    /\ \A r \in GhRepos :
          /\ Occurrences(repo_data, r) <= 1
          /\ Occurrences(repo_data, r) = 1 <=> repo_pc[r] \in {"appended", "done"}
    /\ ghPc = "done" => output_file = Some(repo_data)

\* both workers of the GitHub script stored their entry and the output
\* file holds both
C17_Witness ==
    /\ ghPc = "done"
    /\ \A r \in GhRepos : repo_pc[r] = "done"
    /\ Len(Val(output_file)) = Cardinality(GhRepos)

(***************************************************************************)
(* Properties of get_pat (under SpecPat)                                   *)
(***************************************************************************)
\* the token the i-th call of a round robin over the pool returns
RoundRobin(i) == pats[((i - 1) % Len(pats)) + 1]

\* no call of get_pat is in progress
NoCallInProgress == \A t \in PatThreads : call_pc[t] = "idle"

\* C18: as long as the calls follow one another, the i-th call returns the
\* i-th token of the round robin that starts at the first token of the
\* pool; after 3 * K calls each of the K tokens was returned 3 times.
C18_SequentialRoundRobin ==
    ~pat_overlap
        => /\ \A i \in 1..Len(pat_returns) : pat_returns[i] = RoundRobin(i)
           /\ Len(pat_returns) = 3 * Len(pats)
                 => \A k \in 1..Len(pats) : Occurrences(pat_returns, pats[k]) = 3

\* three rounds over the largest pool, one call after the other
C18_Witness ==
    /\ ~pat_overlap
    /\ Len(pats) = MaxPats
    /\ Len(pat_returns) = 3 * MaxPats
    /\ pat_returns[1] = "pat1"

\* C19 (as claimed): the rotation index is updated under exclusive access -
\* no two threads are between reading and returning at once - and n calls,
\* concurrent or not, leave the index n steps further and return n
\* consecutive tokens of the rotation, each as often as the round robin does.
C19_ExclusiveRotation ==
    /\ \A t, u \in PatThreads : (call_pc[t] # "idle" /\ call_pc[u] # "idle") => t = u
    /\ NoCallInProgress
          => /\ pat_returns # << >> => Val(pat_index) = (Len(pat_returns) - 1) % Len(pats)
             /\ \A k \in 1..Len(pats) :
                   Occurrences(pat_returns, pats[k])
                      = Cardinality({i \in 1..Len(pat_returns) : RoundRobin(i) = pats[k]})

(***************************************************************************)
(* Properties of wait_for_rate_limit (under SpecRateLimit)                 *)
(***************************************************************************)
\* the caller has been through the body of the loop: a quota check gave it
\* fewer than SafetyMargin remaining calls and it obtained a reset time
WasBlocked(c) == rl_reset[c] # None

NetworkUsed == \E o \in Orgs : org_pc[o] \notin {"unsubmitted", "pending", "list"}

\* the pool of organization workers exists
PoolStarted == foPc # "idle"

\* the organizations file cannot be opened or the variable is not set
BadStartup == orgs_file = "missing" \/ ADO_PAT = None

\* C21: with the organizations file missing or ADO_PAT unset the run never
\* starts a pool and never sends a request, and it ends only by sys.exit(1)
\* after printing a message; a pool or a request exists only after both
\* validations have passed
C21_ValidateBeforeNetwork ==
    /\ BadStartup => /\ suPc \in {"load", "token", "exited"}
                     /\ ~PoolStarted
                     /\ ~NetworkUsed
    /\ suPc = "token" => orgs_file = "present"
    /\ suPc = "exited" => /\ exit_status = Some(1)
                          /\ printed # << >>
                          /\ ~PoolStarted
                          /\ ~NetworkUsed
    /\ (PoolStarted \/ NetworkUsed) => /\ orgs_file = "present"
                                       /\ token # None
                                       /\ exit_status = None

\* the run has exited on a missing file, or on an unset variable
C21_Witness == suPc = "exited" /\ BadStartup /\ exit_status = Some(1)

(***************************************************************************)
(* Properties of the two probe functions (under SpecVC)                    *)
(***************************************************************************)
\* check_tfvc_system_inline / check_git_system_inline has returned
TfvcProbeDone == vcPc \notin {"tfvc_items", "tfvc_changesets", "idle"}
GitProbeDone == vcPc \notin {"tfvc_items", "tfvc_changesets", "git_list", "git_repo", "idle"}

\* a request failed in transport, or was answered 401/403 (a non-200 status)
Refused(status) == status \in {"error", "non200"}

\* every request the TFVC probe sent was refused: the item listing, and the
\* changeset listing where the code went on to it
TfvcRefused ==
    /\ Refused(probe_status.tfvc_items)
    /\ probe_status.tfvc_changesets \in {"none", "error", "non200"}

GitRefused == Refused(probe_status.git_list)

\* C22 (as claimed): a probe whose backend is unreachable or answers
\* 401/403 returns has_content = False with error set; no probe result has
\* error set together with has_content = True.
C22_ProbeErrors ==
    /\ (TfvcProbeDone /\ TfvcRefused) => (~tfvc_info.has_content /\ tfvc_info.error # None)
    /\ (GitProbeDone /\ GitRefused) => (~git_info.has_content /\ git_info.error # None)
    /\ ~(tfvc_info.has_content /\ tfvc_info.error # None)
    /\ ~(git_info.has_content /\ git_info.error # None)

\* what the code does guarantee: a transport error of a probe's own request
\* sets error and leaves has_content False, and the two never go together
TransportErrorsReported ==
    /\ TfvcProbeDone /\ "error" \in {probe_status.tfvc_items, probe_status.tfvc_changesets}
          => (~tfvc_info.has_content /\ tfvc_info.error # None)
    /\ GitProbeDone /\ probe_status.git_list = "error"
          => (~git_info.has_content /\ git_info.error # None)
    /\ ~(tfvc_info.has_content /\ tfvc_info.error # None)
    /\ ~(git_info.has_content /\ git_info.error # None)

(***************************************************************************)
(* Properties of process_project: kind and rows (under SpecProject)        *)
(***************************************************************************)
BackendKinds == {"GIT", "TFVC", "ARTIFACTS", "WIKI", "FILE_STORAGE"}

\* rows exist only once the kind is known, and all carry it
RowsCarryKind ==
    /\ project_data # << >> => pj_type \in BackendKinds
    /\ \A i \in 1..Len(project_data) : project_data[i].project_type = pj_type

\* a completed project has one row per listed repository when it is a Git
\* project with repositories, and exactly one row otherwise
CompletedHasRows ==
    pjPc = "done" =>
        /\ pj_type \in BackendKinds
        /\ Len(project_data) >= 1
        /\ IF pj_type = "GIT" /\ pj_repos # << >>
           THEN Len(project_data) = Len(pj_repos)
           ELSE Len(project_data) = 1

\* the kind is assigned by one step, taken while no row exists, and never
\* assigned again
KindAssignedOnce ==
    /\ pj_type # "NONE" => pj_type' = pj_type
    /\ pj_type' # pj_type => project_data = << >>

\* C23: process_project decides the kind of the project once, before its
\* first row exists; every row carries that kind; a project that completes
\* has at least one row (one per repository for GIT, one otherwise)
C23_OneKindPerProject == [](RowsCarryKind /\ CompletedHasRows) /\ [][KindAssignedOnce]_vars

\* a Git project with two repositories completed with two rows
C23_Witness == pjPc = "done" /\ pj_type = "GIT" /\ Len(pj_repos) = 2 /\ Len(project_data) = 2

(***************************************************************************)
(* Properties of the size estimates of the two probes (under SpecVC)       *)
(***************************************************************************)
\* C24: a Git probe result with has_content = True has a strictly positive
\* size estimate, so when both backends have content the size stage never
\* takes the branch 'only TFVC has size data' nor the branch 'no size data
\* for either system'
C24_GitEstimatePositive ==
    /\ (GitProbeDone /\ git_info.has_content) => GitSize > 0
    /\ determine_called =>
          /\ tfvc_info.has_content /\ git_info.has_content
          /\ SizeBranch(TfvcSize, GitSize) \in {"both have size data", "only Git has size data"}

\* both backends have content, the Git repositories report no size: the Git
\* estimate comes from the file counts and the classification has ended
C24_Witness ==
    /\ Ended /\ determine_called
    /\ git_info.total_size = 0
    /\ GitSize > 0
    /\ TfvcSize = 0

\* C25: a TFVC probe result with last_activity set has item_count = 0 and
\* total_size = 0; when both backends have content TFVC is never returned
\* by the recency rule: it is returned only by the size stage with a
\* strictly larger estimate, or by the content-volume rule
C25_TfvcNeverByRecency ==
    /\ tfvc_info.last_activity # None
          => /\ tfvc_info.item_count = 0
             /\ tfvc_info.total_size = 0
             /\ tfvc_info.changesets > 0
    /\ (vcPc = "done" /\ determine_called /\ project_type = "TFVC")
          => /\ decided_by \in {"size", "volume"}
             /\ decided_by = "size" => TfvcSize > GitSize
             /\ decided_by = "volume" => VolumeRuleResult = "TFVC"

\* both backends have content, the TFVC one through a dated changeset, and
\* the classification has returned
C25_Witness ==
    /\ vcPc = "done" /\ determine_called
    /\ tfvc_info.last_activity # None

(***************************************************************************)
(* Properties of the estimation stages of get_repo_statistics (under       *)
(* SpecStats)                                                              *)
(***************************************************************************)
\* the content sizes the per-item metadata of a listing can sum to
ContentSizes == {SumSeq(s) : s \in SeqUpTo(MetaSizes, MaxSized)} \ {0}

\* the byte figure behind the reported total is the estimate of the content size
ReportsEstimate == stats.total_size = format_size_in_kb(OverheadEstimate(calculated_total_size))

\* a and b lie on the same side of the small-content threshold of line 697
SameRegime(a, b) == (a < 10000) = (b < 10000)

\* C26 (as claimed): the overhead-adjusted estimate is non-decreasing in the
\* content size - whatever content size b a call reports the estimate of,
\* no smaller content size a has a larger estimate, the 10000-byte
\* threshold included.
C26_EstimateMonotone ==
    MeasuredWithoutApiSize
        => /\ ReportsEstimate
           /\ \A a \in ContentSizes :
                 a <= calculated_total_size
                     => OverheadEstimate(a) <= OverheadEstimate(calculated_total_size)

\* C26 (amended): the estimate is non-decreasing on each side of the
\* threshold - for content sizes a <= b that are both below 10000 or both
\* at least 10000 - and it drops at the threshold: 9990 bytes are estimated
\* at 499500 bytes, 10000 bytes at 80000.
C26_MonotoneWithinRegime ==
    /\ MeasuredWithoutApiSize
          => /\ ReportsEstimate
             /\ \A a \in ContentSizes :
                   (a <= calculated_total_size /\ SameRegime(a, calculated_total_size))
                       => OverheadEstimate(a) <= OverheadEstimate(calculated_total_size)
    /\ OverheadEstimate(9990) = 499500
    /\ OverheadEstimate(10000) = 80000

\* a call that measured 19980 bytes of content: 10000 is a smaller content
\* size on the same side of the threshold
C26_Witness ==
    /\ MeasuredWithoutApiSize
    /\ calculated_total_size = 19980
    /\ 10000 \in ContentSizes
    /\ stats.total_size = Str(157)

\* the call returned through the final statistics of lines 683-715
FinalStatistics == stPc = "done" /\ stats.file_count = Str(file_count) /\ file_count > 0

\* nothing gave a size: no repository size, no metadata size, no Content-Length
NoSizeKnown == ~ApiSizeUsable /\ sizes_from_metadata = 0 /\ successful_measurements = 0

\* C27: for a repository with file_count > 0 whose item listing succeeded,
\* calculated_total_size is positive after the estimation stages; with no
\* size known at all the total is the overhead-adjusted value of
\* file_count * 1024 bytes, and the total never comes from the branch that
\* estimates 3072 bytes per file
C27_PerFileBranchDead ==
    FinalStatistics
        => /\ calculated_total_size > 0
           /\ TotalSizeBranch(file_count, calculated_total_size, repo_api_size) # "3072 per file"
           /\ NoSizeKnown
                 => /\ calculated_total_size = file_count * 1024
                    /\ stats.total_size = format_size_in_kb(OverheadEstimate(file_count * 1024))

\* two files, no size from anywhere: 2048 bytes of assumed content are
\* reported as 100 KB, not as the 6 KB of 2 * 3072 bytes
C27_Witness ==
    /\ FinalStatistics /\ NoSizeKnown
    /\ file_count = 2
    /\ probe_requests > 0
    /\ stats.total_size = Str(100)

(***************************************************************************)
(* Properties of wait_for_rate_limit: credentials and termination (under   *)
(* SpecRateLimit)                                                          *)
(***************************************************************************)
\* C28 (as claimed): in one pass of the loop the remaining count that
\* triggers the wait and the reset time the sleep is computed from are
\* obtained with the same token, whatever the size of the token pool.
C28_SameCredential ==
    \A c \in RlCallers :
        (rl_cred[c].remaining # None /\ rl_cred[c].reset # None)
            => rl_cred[c].remaining = rl_cred[c].reset

\* with a single token the two quota checks of a pass do use the same one
SingleTokenSameCredential == Len(pats) = 1 => C28_SameCredential

\* a caller that has the reset time computes the length of the wait and
\* begins to sleep: the step from the computation never ends the call
WaitComputationSleeps ==
    \A c \in RlCallers :
        /\ rl_pc[c] = "sleep_length" => rl_pc'[c] = "sleep"
        /\ (enterprise /\ rl_pc[c] # "raised") => rl_pc'[c] # "raised"

\* C29 (as claimed): on github.com and on an enterprise server alike no call
\* of wait_for_rate_limit ends by an exception of the wait computation, so
\* that every call can go on to return normally.
C29_WaitReturnsNormally == [][WaitComputationSleeps]_vars

\* whichever way a call ends, by a return or by an exception, it has
\* released rate_limit_lock
LockReleasedAtExit ==
    \A c \in RlCallers : rl_pc[c] \in {"returned", "raised"} => rate_limit_lock # Some(c)

(***************************************************************************)
(* Properties of the two size columns of a repository row (under           *)
(* SpecProject)                                                            *)
(***************************************************************************)
\* both size columns of the row hold a number
BothNumeric(row) == row.kb.kind = "num" /\ row.mb.kind = "fixed2"

\* the MB column is the KB column divided by 1024, up to one hundredth
SameFigure(row) ==
    LET fromKb == Fixed2(row.kb.n, 1024).n
    IN  row.mb.n - fromKb \in {-1, 0, 1}

\* C30 (as claimed): in every row of a Git repository whose two size
\* columns are numeric, Total Repo Size (MB) equals Total Repo Size (KB) /
\* 1024 up to rounding, and MB is not 0.00 while KB is positive.
C30_SizeColumnsAgree ==
    \A i \in 1..Len(project_data) :
        (project_data[i].project_type = "GIT" /\ BothNumeric(project_data[i]))
            => /\ SameFigure(project_data[i])
               /\ ~(project_data[i].mb.n = 0 /\ project_data[i].kb.n > 0)

\* when the repository reports a size of at least 5243 bytes (0.005 MB) to
\* both requests the two columns do agree
AgreeOnReportedSize ==
    \A i \in 1..Len(project_data) :
        (project_data[i].project_type = "GIT" /\ BothNumeric(project_data[i])
           /\ pj_seen[i].size # None /\ Val(pj_seen[i].size) >= 5243
           /\ pj_seen[i].items # "error")
            => /\ SameFigure(project_data[i])
               /\ project_data[i].mb.n > 0

============================================================================
